---- MODULE Spec2Model ----
(***************************************************************************)
(* TDMS core: typed tables, row validation, the table registry and the    *)
(* UNION ALL operator, with the collaborators that register union results.*)
(*                                                                         *)
(* Python values are records [k, n, s, e]: k is the Python type, n the     *)
(* integer payload, s the characters of a str (or the start of a           *)
(* {start, end} dict or of a two-element list, or the ISO form of a date   *)
(* object), e the end of such a dict or list.  A str is a sequence of      *)
(* one-character strings.  A dict keyed by column names is a function from *)
(* a set of names to values.  Tables and rows are never shared between two *)
(* owners in the code (union_tables builds a fresh Table, fresh Row        *)
(* objects and fresh dicts), so objects are modelled by their values.      *)
(***************************************************************************)
EXTENDS Integers, Sequences, FiniteSets, TLC

VARIABLES tables, call, pre, err, ret

vars == <<tables, call, pre, err, ret>>

(***************************************************************************)
(* Bounds of the model.                                                    *)
(***************************************************************************)
\* the rows of a registered table, the registered tables, and the
\* characters of a key under which a union result is registered
MaxRows == 2
MaxTables == 2
MaxNameLen == 13

(***************************************************************************)
(* Python values.                                                          *)
(***************************************************************************)
PyNone == [k |-> "NoneType", n |-> 0, s |-> <<>>, e |-> <<>>]
PyBool(b) == [k |-> "bool", n |-> IF b THEN 1 ELSE 0, s |-> <<>>, e |-> <<>>]
PyInt(i) == [k |-> "int", n |-> i, s |-> <<>>, e |-> <<>>]
\* an int of more than MaxSmallDigits digits: its sign and decimal digits
PyLong(chars) == [k |-> "int", n |-> 0, s |-> chars, e |-> <<>>]
PyFloat(i) == [k |-> "float", n |-> i, s |-> <<>>, e |-> <<>>]
PyStr(chars) == [k |-> "str", n |-> 0, s |-> chars, e |-> <<>>]
PyInterval(a, b) == [k |-> "dict", n |-> 0, s |-> a, e |-> b]
PyList(a, b) == [k |-> "list", n |-> 0, s |-> a, e |-> b]
PyDate(iso) == [k |-> "date", n |-> 0, s |-> iso, e |-> <<>>]

Digits == <<"0", "1", "2", "3", "4", "5", "6", "7", "8", "9">>

IsDigit(c) == \E i \in 1..Len(Digits) : Digits[i] = c

DigitValue(c) == (CHOOSE i \in 1..Len(Digits) : Digits[i] = c) - 1

IsSpace(c) == c \in {" ", "\t", "\n"}

RECURSIVE lstrip(_)
lstrip(chars) ==
    IF chars # <<>> /\ IsSpace(Head(chars)) THEN lstrip(Tail(chars)) ELSE chars

RECURSIVE rstrip(_)
rstrip(chars) ==
    IF chars # <<>> /\ IsSpace(chars[Len(chars)])
    THEN rstrip(SubSeq(chars, 1, Len(chars) - 1))
    ELSE chars

strip(chars) == rstrip(lstrip(chars))

RECURSIVE DigitsValue(_)
DigitsValue(chars) ==
    IF chars = <<>> THEN 0
    ELSE 10 * DigitsValue(SubSeq(chars, 1, Len(chars) - 1))
         + DigitValue(chars[Len(chars)])

AllDigits(chars) == chars # <<>> /\ \A i \in 1..Len(chars) : IsDigit(chars[i])

RECURSIVE NatToChars(_)
NatToChars(i) ==
    IF i < 10 THEN <<Digits[i + 1]>>
    ELSE NatToChars(i \div 10) \o <<Digits[(i % 10) + 1]>>

IntToChars(i) == IF i < 0 THEN <<"-">> \o NatToChars(-i) ELSE NatToChars(i)

(***************************************************************************)
(* int(str): surrounding whitespace is stripped, one optional sign, then   *)
(* decimal digits in groups separated by single underscores.               *)
(***************************************************************************)
Unsigned(chars) ==
    IF chars # <<>> /\ Head(chars) \in {"+", "-"} THEN Tail(chars) ELSE chars

IsNegative(chars) == chars # <<>> /\ Head(chars) = "-"

IsDigitGroups(chars) ==
    /\ chars # <<>>
    /\ IsDigit(chars[1])
    /\ IsDigit(chars[Len(chars)])
    /\ \A i \in 1..Len(chars) : IsDigit(chars[i]) \/ chars[i] = "_"
    /\ \A i \in 1..(Len(chars) - 1) : ~(chars[i] = "_" /\ chars[i + 1] = "_")

DropUnderscores(chars) == SelectSeq(chars, LAMBDA c : c # "_")

IsIntLiteral(chars) == IsDigitGroups(Unsigned(strip(chars)))

IntLiteralValue(chars) ==
    LET body == DigitsValue(DropUnderscores(Unsigned(strip(chars))))
    IN  IF IsNegative(strip(chars)) THEN -body ELSE body

\* Python ints are unbounded.  One of up to MaxSmallDigits digits is held as
\* a number, a longer one as its digits without leading zeros.
MaxSmallDigits == 9

RECURSIVE StripZeros(_)
StripZeros(chars) ==
    IF Len(chars) > 1 /\ Head(chars) = "0" THEN StripZeros(Tail(chars)) ELSE chars

\* int(chars) of an int literal
IntOfLiteral(chars) ==
    LET digits == StripZeros(DropUnderscores(Unsigned(strip(chars))))
    IN  IF Len(digits) <= MaxSmallDigits THEN PyInt(IntLiteralValue(chars))
        ELSE PyLong((IF IsNegative(strip(chars)) THEN <<"-">> ELSE <<>>) \o digits)

\* float(i) of a long int within 512 of 2^63 or of -2^63: the nearest
\* double is 2^63 or -2^63
Two63 ==
    <<"9", "2", "2", "3", "3", "7", "2", "0", "3", "6", "8", "5", "4", "7", "7",
      "5", "8", "0", "8">>

FloatOfLong(value) ==
    [k |-> "float", n |-> 0,
     s |-> (IF IsNegative(value.s) THEN <<"-">> ELSE <<>>) \o Two63, e |-> <<>>]

(***************************************************************************)
(* float(str), for literals with at most one fractional digit: a float is  *)
(* held in tenths (PyFloat(15) is 1.5).  Exponents, "inf" and "nan" are    *)
(* outside the values the model draws.                                     *)
(***************************************************************************)
DotAt(chars) ==
    IF \E i \in 1..Len(chars) : chars[i] = "."
    THEN CHOOSE i \in 1..Len(chars) : chars[i] = "."
    ELSE 0

IsFloatLiteral(chars) ==
    LET u == Unsigned(strip(chars))
        d == DotAt(u)
    IN  IF d = 0 THEN IsDigitGroups(u)
        ELSE /\ d = Len(u) - 1
             /\ IsDigit(u[Len(u)])
             /\ d > 1
             /\ IsDigitGroups(SubSeq(u, 1, d - 1))

FloatLiteralTenths(chars) ==
    LET u == Unsigned(strip(chars))
        d == DotAt(u)
        body == IF d = 0 THEN 10 * DigitsValue(DropUnderscores(u))
                ELSE 10 * DigitsValue(DropUnderscores(SubSeq(u, 1, d - 1)))
                     + DigitValue(u[Len(u)])
    IN  IF IsNegative(strip(chars)) THEN -body ELSE body

\* int(float): truncation toward zero
TruncTenths(t) == IF t < 0 THEN -((-t) \div 10) ELSE t \div 10

\* repr(float) of a value held in tenths
FloatToChars(t) ==
    LET a == IF t < 0 THEN -t ELSE t
    IN  (IF t < 0 THEN <<"-">> ELSE <<>>)
        \o NatToChars(a \div 10) \o <<".">> \o <<Digits[(a % 10) + 1]>>

(***************************************************************************)
(* Calendar dates: date.fromisoformat and date.isoformat.                  *)
(***************************************************************************)
IsLeap(y) == (y % 4 = 0 /\ y % 100 # 0) \/ y % 400 = 0

DaysInMonth(y, m) ==
    IF m = 2 THEN (IF IsLeap(y) THEN 29 ELSE 28)
    ELSE IF m \in {4, 6, 9, 11} THEN 30 ELSE 31

IsCalendarDate(y, m, d) ==
    /\ y >= 1
    /\ m \in 1..12
    /\ d >= 1
    /\ d <= DaysInMonth(y, m)

\* the extended form YYYY-MM-DD and the basic form YYYYMMDD
IsIsoDate(chars) ==
    \/ /\ Len(chars) = 10
       /\ chars[5] = "-"
       /\ chars[8] = "-"
       /\ AllDigits(SubSeq(chars, 1, 4))
       /\ AllDigits(SubSeq(chars, 6, 7))
       /\ AllDigits(SubSeq(chars, 9, 10))
       /\ IsCalendarDate(DigitsValue(SubSeq(chars, 1, 4)),
                         DigitsValue(SubSeq(chars, 6, 7)),
                         DigitsValue(SubSeq(chars, 9, 10)))
    \/ /\ Len(chars) = 8
       /\ AllDigits(chars)
       /\ IsCalendarDate(DigitsValue(SubSeq(chars, 1, 4)),
                         DigitsValue(SubSeq(chars, 5, 6)),
                         DigitsValue(SubSeq(chars, 7, 8)))

isoformat(chars) ==
    IF Len(chars) = 8
    THEN SubSeq(chars, 1, 4) \o <<"-">> \o SubSeq(chars, 5, 6) \o <<"-">>
         \o SubSeq(chars, 7, 8)
    ELSE chars

\* code points of the characters of an ISO date
CharRank(c) == IF IsDigit(c) THEN 48 + DigitValue(c) ELSE 45

\* a > b on two str values of ISO dates, as Python compares str
RECURSIVE StrGreater(_, _)
StrGreater(a, b) ==
    IF a = <<>> THEN FALSE
    ELSE IF b = <<>> THEN TRUE
    ELSE IF Head(a) = Head(b) THEN StrGreater(Tail(a), Tail(b))
    ELSE CharRank(Head(a)) > CharRank(Head(b))

(***************************************************************************)
(* Errors: the exception class, its message and the message's arguments.   *)
(***************************************************************************)
NoError == [exc |-> "", msg |-> "", args |-> <<>>]

Raise(exc, msg, args) == [exc |-> exc, msg |-> msg, args |-> args]

ValueError(msg) == Raise("ValueError", msg, <<>>)

Ok(v) == [err |-> NoError, value |-> v]

Fail(e) == [err |-> e, value |-> PyNone]

(***************************************************************************)
(* TypeValidator                                                           *)
(***************************************************************************)
\* the interval tag spelled out
SUPPORTED_TYPES_spelled ==
    {"integer", "real", "char", "string", "date", "dateInterval"}

SUPPORTED_TYPES == {"integer", "real", "char", "string", "date", "dateInvl"}

\* str(value) of a value that is not a str
str(value) ==
    IF value.k = "int"
    THEN (IF value.s # <<>> THEN value.s ELSE IntToChars(value.n))
    ELSE IF value.k = "float" THEN FloatToChars(value.n)
    ELSE IF value.k = "bool"
         THEN (IF value.n = 1 THEN <<"T", "r", "u", "e">>
               ELSE <<"F", "a", "l", "s", "e">>)
    ELSE IF value.k = "NoneType" THEN <<"N", "o", "n", "e">>
    ELSE IF value.k = "date" THEN value.s
    ELSE IF value.k = "list"
         THEN <<"[", "'">> \o value.s \o <<"'", ",", " ", "'">> \o value.e
              \o <<"'", "]">>
    ELSE <<"{", "'", "s", "t", "a", "r", "t", "'", ":", " ", "'">> \o value.s
         \o <<"'", ",", " ", "'", "e", "n", "d", "'", ":", " ", "'">> \o value.e
         \o <<"'", "}">>

_parse_date(value) ==
    IF value.k = "date" THEN Ok(PyStr(value.s))
    ELSE IF value.k = "str"
    THEN IF IsIsoDate(value.s) THEN Ok(PyStr(isoformat(value.s)))
         ELSE Fail(ValueError("Invalid date format, expected YYYY-MM-DD"))
    ELSE Fail(ValueError("Invalid date value"))

\* the first ".." of a str, 0 when it has none
DotDotAt(chars) ==
    IF \E i \in 1..(Len(chars) - 1) : chars[i] = "." /\ chars[i + 1] = "."
    THEN CHOOSE i \in 1..(Len(chars) - 1) :
             /\ chars[i] = "." /\ chars[i + 1] = "."
             /\ \A j \in 1..(i - 1) : ~(chars[j] = "." /\ chars[j + 1] = ".")
    ELSE 0

normalize_integer(value) ==
    IF value.k = "bool" THEN Fail(ValueError("Boolean is not accepted as integer"))
    ELSE IF value.k = "int" THEN Ok(value)
    ELSE IF value.k = "float" THEN Ok(PyInt(TruncTenths(value.n)))
    ELSE IF value.k = "str" /\ IsIntLiteral(value.s)
         THEN Ok(IntOfLiteral(value.s))
    ELSE Fail(ValueError("Invalid integer"))

normalize_real(value) ==
    IF value.k = "bool" THEN Fail(ValueError("Boolean is not accepted as real"))
    ELSE IF value.k = "int"
         THEN (IF value.s # <<>> THEN Ok(FloatOfLong(value))
               ELSE Ok(PyFloat(10 * value.n)))
    ELSE IF value.k = "float" THEN Ok(value)
    ELSE IF value.k = "str" /\ IsIntLiteral(value.s)
                            /\ IntOfLiteral(value.s).s # <<>>
         THEN Ok(FloatOfLong(IntOfLiteral(value.s)))
    ELSE IF value.k = "str" /\ IsFloatLiteral(value.s)
         THEN Ok(PyFloat(FloatLiteralTenths(value.s)))
    ELSE Fail(ValueError("Invalid real"))

normalize_char(value) ==
    IF value.k # "str" THEN Fail(ValueError("Invalid char"))
    ELSE IF Len(value.s) # 1 THEN Fail(ValueError("Char must be exactly one character"))
    ELSE Ok(value)

normalize_string(value) ==
    IF value.k = "str" THEN Ok(value) ELSE Ok(PyStr(str(value)))

\* normalize for dateInvl without the check of lines 77-78
normalize_dateInvl_unordered(value) ==
    LET isDict == value.k \in {"dict", "list"}
        isStr == value.k = "str" /\ DotDotAt(value.s) # 0
        at == DotDotAt(value.s)
        start == IF isDict THEN PyStr(value.s)
                 ELSE PyStr(SubSeq(value.s, 1, at - 1))
        end == IF isDict THEN PyStr(value.e)
               ELSE PyStr(SubSeq(value.s, at + 2, Len(value.s)))
        start_iso == _parse_date(start)
        end_iso == _parse_date(end)
    IN  IF ~(isDict \/ isStr)
        THEN Fail(ValueError("Invalid dateInvl, expected {start,end}, [start,end] or 'start..end'"))
        ELSE IF start_iso.err # NoError THEN start_iso
        ELSE IF end_iso.err # NoError THEN end_iso
        ELSE Ok(PyInterval(start_iso.value.s, end_iso.value.s))

normalize_dateInvl(value) ==
    LET isDict == value.k \in {"dict", "list"}
        isStr == value.k = "str" /\ DotDotAt(value.s) # 0
        at == DotDotAt(value.s)
        start == IF isDict THEN PyStr(value.s)
                 ELSE PyStr(SubSeq(value.s, 1, at - 1))
        end == IF isDict THEN PyStr(value.e)
               ELSE PyStr(SubSeq(value.s, at + 2, Len(value.s)))
        start_iso == _parse_date(start)
        end_iso == _parse_date(end)
    IN  IF ~(isDict \/ isStr)
        THEN Fail(ValueError("Invalid dateInvl, expected {start,end}, [start,end] or 'start..end'"))
        ELSE IF start_iso.err # NoError THEN start_iso
        ELSE IF end_iso.err # NoError THEN end_iso
        ELSE IF StrGreater(start_iso.value.s, end_iso.value.s)
             THEN Fail(ValueError("dateInvl start must be <= end"))
        ELSE Ok(PyInterval(start_iso.value.s, end_iso.value.s))

normalize(value, type_name) ==
    IF type_name \notin SUPPORTED_TYPES
    THEN Fail(Raise("ValueError", "Unsupported type", <<type_name>>))
    ELSE IF type_name = "integer" THEN normalize_integer(value)
    ELSE IF type_name = "real" THEN normalize_real(value)
    ELSE IF type_name = "char" THEN normalize_char(value)
    ELSE IF type_name = "string" THEN normalize_string(value)
    ELSE IF type_name = "date" THEN _parse_date(value)
    ELSE IF type_name = "dateInvl" THEN normalize_dateInvl(value)
    ELSE Fail(Raise("ValueError", "Unknown type", <<type_name>>))

(***************************************************************************)
(* validate_row: values is a dict (a function on its key set); the result  *)
(* is the error raised, or the dict of normalized values built column by   *)
(* column in schema order.                                                 *)
(***************************************************************************)
SchemaNames(schema) == {schema[i][1] : i \in 1..Len(schema)}

\* Variant of validate_columns: a column without a value is skipped
RECURSIVE validate_columns_partial(_, _, _)
validate_columns_partial(schema_list, values, normalized) ==
    IF schema_list = <<>> THEN [err |-> NoError, value |-> normalized]
    ELSE LET name == Head(schema_list)[1]
             type_name == Head(schema_list)[2]
         IN  IF name \notin DOMAIN values
             THEN validate_columns_partial(Tail(schema_list), values, normalized)
             ELSE LET n == normalize(values[name], type_name)
                  IN  IF n.err # NoError
                      THEN [err |-> n.err, value |-> normalized]
                      ELSE validate_columns_partial(
                               Tail(schema_list), values,
                               [c \in (DOMAIN normalized) \cup {name} |->
                                   IF c = name THEN n.value ELSE normalized[c]])

\* the loop over the columns: the error raised, and the values normalized
\* before it
RECURSIVE validate_columns(_, _, _)
validate_columns(schema_list, values, normalized) ==
    IF schema_list = <<>> THEN [err |-> NoError, value |-> normalized]
    ELSE LET name == Head(schema_list)[1]
             type_name == Head(schema_list)[2]
         IN  IF name \notin DOMAIN values
             THEN [err |-> Raise("ValueError", "Missing value for column", <<name>>),
                   value |-> normalized]
             ELSE LET n == normalize(values[name], type_name)
                  IN  IF n.err # NoError
                      THEN [err |-> n.err, value |-> normalized]
                      ELSE validate_columns(
                               Tail(schema_list), values,
                               [c \in (DOMAIN normalized) \cup {name} |->
                                   IF c = name THEN n.value ELSE normalized[c]])

\* validate_row without the check of lines 88-92: keys that are not columns
\* are ignored
validate_row_lenient(schema, values) ==
    validate_columns(schema, values, <<>>)

validate_row(schema, values) ==
    LET allowed_keys == SchemaNames(schema)
        extra == (DOMAIN values) \ allowed_keys
    IN  IF extra # {}
        THEN \* the message lists sorted(extra); the model keeps the set
             [err |-> Raise("ValueError", "Unexpected columns", <<extra>>),
              value |-> <<>>]
        ELSE validate_columns(schema, values, <<>>)

(***************************************************************************)
(* Column, Row, Table.  A Row is its values dict; a Table is its name (a   *)
(* str: a sequence of characters), its ordered columns and ordered rows.   *)
(***************************************************************************)
Column(name, type_name) == [name |-> name, type_name |-> type_name]

Table(name, columns, rows) == [name |-> name, columns |-> columns, rows |-> rows]

schema(t) ==
    [i \in 1..Len(t.columns) |-> <<t.columns[i].name, t.columns[i].type_name>>]

schema_signature(t) == schema(t)

from_schema(name, sch) ==
    Table(name, [i \in 1..Len(sch) |-> Column(sch[i][1], sch[i][2])], <<>>)

get_rows(t) == [i \in 1..Len(t.rows) |-> t.rows[i]]

\* Variant of add_row: the values normalized before a failure are appended
add_row_partial(t, values) ==
    LET normalized == validate_row(schema(t), values)
    IN  [err |-> normalized.err,
         table |-> [t EXCEPT !.rows = Append(t.rows, normalized.value)],
         row |-> normalized.value]

\* Variant of add_row: the new row goes first
add_row_prepend(t, values) ==
    LET normalized == validate_row(schema(t), values)
    IN  IF normalized.err # NoError
        THEN [err |-> normalized.err, table |-> t, row |-> <<>>]
        ELSE [err |-> NoError,
              table |-> [t EXCEPT !.rows = <<normalized.value>> \o t.rows],
              row |-> normalized.value]

\* Variant of add_row: the values are stored as they were given,
\* Row(values=values)
add_row_raw(t, values) ==
    LET normalized == validate_row(schema(t), values)
    IN  IF normalized.err # NoError
        THEN [err |-> normalized.err, table |-> t, row |-> <<>>]
        ELSE [err |-> NoError,
              table |-> [t EXCEPT !.rows = Append(t.rows, values)],
              row |-> values]

\* the table after the call, the error raised and the row returned
add_row(t, values) ==
    LET normalized == validate_row(schema(t), values)
    IN  IF normalized.err # NoError
        THEN [err |-> normalized.err, table |-> t, row |-> <<>>]
        ELSE [err |-> NoError,
              table |-> [t EXCEPT !.rows = Append(t.rows, normalized.value)],
              row |-> normalized.value]

\* Variant of update_row: no check of index < 0, so a negative index counts
\* from the end as Python's list indexing does
update_row_negative(t, index, values) ==
    IF index >= Len(t.rows)
    THEN [err |-> Raise("IndexError", "Row index out of range", <<>>),
          table |-> t, row |-> <<>>]
    ELSE LET normalized == validate_row(schema(t), values)
             at == IF index < 0 THEN Len(t.rows) + index + 1 ELSE index + 1
         IN  IF normalized.err # NoError
             THEN [err |-> normalized.err, table |-> t, row |-> <<>>]
             ELSE IF at < 1
             THEN [err |-> Raise("IndexError", "list assignment index out of range", <<>>),
                   table |-> t, row |-> <<>>]
             ELSE [err |-> NoError,
                   table |-> [t EXCEPT !.rows[at] = normalized.value],
                   row |-> normalized.value]

\* update_row that assigns the slice from index on:
\* self.rows[index:] = [Row(values=normalized)]
update_row_slice(t, index, values) ==
    IF index < 0 \/ index >= Len(t.rows)
    THEN [err |-> Raise("IndexError", "Row index out of range", <<>>),
          table |-> t, row |-> <<>>]
    ELSE LET normalized == validate_row(schema(t), values)
         IN  IF normalized.err # NoError
             THEN [err |-> normalized.err, table |-> t, row |-> <<>>]
             ELSE [err |-> NoError,
                   table |-> [t EXCEPT !.rows = Append(SubSeq(t.rows, 1, index),
                                                       normalized.value)],
                   row |-> normalized.value]

\* index is a Python position: the first row is 0
update_row(t, index, values) ==
    IF index < 0 \/ index >= Len(t.rows)
    THEN [err |-> Raise("IndexError", "Row index out of range", <<>>),
          table |-> t, row |-> <<>>]
    ELSE LET normalized == validate_row(schema(t), values)
         IN  IF normalized.err # NoError
             THEN [err |-> normalized.err, table |-> t, row |-> <<>>]
             ELSE [err |-> NoError,
                   table |-> [t EXCEPT !.rows[index + 1] = normalized.value],
                   row |-> normalized.value]

(***************************************************************************)
(* union_tables                                                            *)
(***************************************************************************)
UnionMarker == <<"_", "U", "N", "I", "O", "N", "_">>

\* {n: t for n, t in schema}: a later column of the same name wins
TypeMap(sch) ==
    [n \in SchemaNames(sch) |->
        sch[CHOOSE i \in 1..Len(sch) :
                /\ sch[i][1] = n
                /\ \A j \in (i + 1)..Len(sch) : sch[j][1] # n][2]]

\* Variant of Conflicts: only columns at the same position are compared
Conflicts_positional(table1, table2) ==
    {table1.columns[i].name :
        i \in {k \in 1..Len(table1.columns) :
                  /\ k <= Len(table2.columns)
                  /\ table2.columns[k].name = table1.columns[k].name
                  /\ table2.columns[k].type_name # table1.columns[k].type_name}}

\* Variant of Conflicts: only the first column of table1 is compared
Conflicts_first(table1, table2) ==
    LET left == TypeMap(schema(table1))
        right == TypeMap(schema(table2))
    IN  {name \in (DOMAIN left) \cap (DOMAIN right) :
            /\ name = table1.columns[1].name
            /\ left[name] # right[name]}

\* the shared column names whose types differ
Conflicts(table1, table2) ==
    LET left == TypeMap(schema(table1))
        right == TypeMap(schema(table2))
    IN  {name \in (DOMAIN left) \cap (DOMAIN right) : left[name] # right[name]}

IncompatibleError(table1, table2, name) ==
    Raise("ValueError", "Incompatible schemas",
          <<name, TypeMap(schema(table1))[name], TypeMap(schema(table2))[name]>>)

\* Variant of combine: every column of table2 is appended
combine_all(combined, sch2) == combined \o sch2

\* table2's columns appended to combined unless their name is already there
RECURSIVE combine(_, _)
combine(combined, sch2) ==
    IF sch2 = <<>> THEN combined
    ELSE IF Head(sch2)[1] \in SchemaNames(combined)
         THEN combine(combined, Tail(sch2))
         ELSE combine(Append(combined, Head(sch2)), Tail(sch2))

\* Variant of append_row: a row equal to one already appended is dropped
append_row_dedup(result, raw) ==
    LET full == [col \in SchemaNames(schema_signature(result)) |->
                    IF col \in DOMAIN raw THEN raw[col] ELSE PyNone]
    IN  [result |-> IF \E i \in 1..Len(result.rows) : result.rows[i] = full
                    THEN result
                    ELSE [result EXCEPT !.rows = Append(result.rows, full)],
         raw |-> raw]

\* Variant of append_row: a missing column is filled with the integer 0
append_row_zero(result, raw) ==
    LET full == [col \in SchemaNames(schema_signature(result)) |->
                    IF col \in DOMAIN raw THEN raw[col] ELSE PyInt(0)]
    IN  [result |-> [result EXCEPT !.rows = Append(result.rows, full)],
         raw |-> raw]

\* Variant of append_row: the missing columns are filled into raw itself
append_row_inplace(result, raw) ==
    LET full == [col \in SchemaNames(schema_signature(result)) |->
                    IF col \in DOMAIN raw THEN raw[col] ELSE PyNone]
    IN  [result |-> [result EXCEPT !.rows = Append(result.rows, full)],
         raw |-> full]

\* append_row(raw): the result after the append, and raw after it (raw is
\* only read)
append_row(result, raw) ==
    LET schema_sig == schema_signature(result)
        full == [col \in SchemaNames(schema_sig) |->
                    IF col \in DOMAIN raw THEN raw[col] ELSE PyNone]
    IN  [result |-> [result EXCEPT !.rows = Append(result.rows, full)],
         raw |-> raw]

\* for row in table.get_rows(): append_row(row).  get_rows hands out the
\* tables' own dicts, so what append_row does to raw is done to the table.
RECURSIVE append_rows(_, _, _)
append_rows(result, table, i) ==
    IF i > Len(get_rows(table)) THEN [result |-> result, table |-> table]
    ELSE LET step == append_row(result, get_rows(table)[i])
         IN  append_rows(step.result,
                         [table EXCEPT !.rows[i] = step.raw], i + 1)

\* Variant of union_tables: the rows of table2 are skipped when table2 equals
\* table1
union_tables_once(table1, table2, first) ==
    IF Conflicts(table1, table2) # {}
    THEN [err |-> IncompatibleError(table1, table2, first),
          result |-> Table(<<>>, <<>>, <<>>),
          table1 |-> table1, table2 |-> table2]
    ELSE LET combined == combine(schema(table1), schema(table2))
             result == from_schema(table1.name \o UnionMarker \o table2.name,
                                   combined)
             one == append_rows(result, table1, 1)
             two == IF table2 = table1 THEN [result |-> one.result, table |-> table2]
                    ELSE append_rows(one.result, table2, 1)
         IN  [err |-> NoError, result |-> two.result,
              table1 |-> one.table, table2 |-> two.table]

\* first: the conflicting name the iteration over the set of shared names
\* reaches first (the order of a set of str is not fixed).  The result, the
\* error and the two inputs after the call.
union_tables(table1, table2, first) ==
    IF Conflicts(table1, table2) # {}
    THEN [err |-> IncompatibleError(table1, table2, first),
          result |-> Table(<<>>, <<>>, <<>>),
          table1 |-> table1, table2 |-> table2]
    ELSE LET combined == combine(schema(table1), schema(table2))
             result == from_schema(table1.name \o UnionMarker \o table2.name,
                                   combined)
             one == append_rows(result, table1, 1)
             two == append_rows(one.result, table2, 1)
         IN  [err |-> NoError, result |-> two.result,
              table1 |-> one.table, table2 |-> two.table]

\* the names the set iteration can reach first
FirstConflicts(table1, table2) ==
    IF Conflicts(table1, table2) = {} THEN {""} ELSE Conflicts(table1, table2)

(***************************************************************************)
(* Database.tables: a dict in insertion order, a sequence of entries       *)
(* [key, table] with distinct keys.                                        *)
(***************************************************************************)
Keys(d) == {d[i].key : i \in 1..Len(d)}

Lookup(d, key) == d[CHOOSE i \in 1..Len(d) : d[i].key = key].table

\* d[key] = table: an existing key keeps its place, a new one goes last
Store(d, key, table) ==
    IF key \in Keys(d)
    THEN [i \in 1..Len(d) |-> IF d[i].key = key THEN [key |-> key, table |-> table]
                              ELSE d[i]]
    ELSE Append(d, [key |-> key, table |-> table])

\* del d[key]
Delete(d, key) == SelectSeq(d, LAMBDA entry : entry.key # key)

NoTable == Table(<<>>, <<>>, <<>>)

TableExistsError(name) == Raise("ValueError", "Table already exists", <<name>>)

TableMissingError(name) == Raise("ValueError", "Table does not exist", <<name>>)

\* the first column name of the schema that an earlier column already has
DuplicateAt(sch) ==
    IF \E i \in 1..Len(sch) : \E j \in 1..(i - 1) : sch[j][1] = sch[i][1]
    THEN CHOOSE i \in 1..Len(sch) :
             /\ \E j \in 1..(i - 1) : sch[j][1] = sch[i][1]
             /\ \A k \in 1..(i - 1) : \A j \in 1..(k - 1) : sch[j][1] # sch[k][1]
    ELSE 0

\* create_table without the check of line 17: the name is bound again
create_table_overwrite(d, name, sch) ==
    IF DuplicateAt(sch) # 0
    THEN [err |-> Raise("ValueError", "Duplicate column name",
                        <<sch[DuplicateAt(sch)][1]>>),
          tables |-> d, table |-> NoTable]
    ELSE [err |-> NoError,
          tables |-> Store(d, name, from_schema(name, sch)),
          table |-> from_schema(name, sch)]

\* create_table that raises for a duplicate column after registering the
\* table
create_table_late(d, name, sch) ==
    IF name \in Keys(d)
    THEN [err |-> TableExistsError(name), tables |-> d, table |-> NoTable]
    ELSE IF DuplicateAt(sch) # 0
    THEN [err |-> Raise("ValueError", "Duplicate column name",
                        <<sch[DuplicateAt(sch)][1]>>),
          tables |-> Store(d, name, from_schema(name, sch)), table |-> NoTable]
    ELSE [err |-> NoError,
          tables |-> Store(d, name, from_schema(name, sch)),
          table |-> from_schema(name, sch)]

\* create_table without the check of lines 30 and 31
create_table_unchecked(d, name, sch) ==
    IF name \in Keys(d)
    THEN [err |-> TableExistsError(name), tables |-> d, table |-> NoTable]
    ELSE [err |-> NoError,
          tables |-> Store(d, name, from_schema(name, sch)),
          table |-> from_schema(name, sch)]

\* the registry after the call, the error raised and the table returned
create_table(d, name, sch) ==
    IF name \in Keys(d)
    THEN [err |-> TableExistsError(name), tables |-> d, table |-> NoTable]
    ELSE IF DuplicateAt(sch) # 0
    THEN [err |-> Raise("ValueError", "Duplicate column name",
                        <<sch[DuplicateAt(sch)][1]>>),
          tables |-> d, table |-> NoTable]
    ELSE [err |-> NoError,
          tables |-> Store(d, name, from_schema(name, sch)),
          table |-> from_schema(name, sch)]

\* drop_table that empties the registry: self.tables.clear()
drop_table_clear(d, name) ==
    IF name \notin Keys(d)
    THEN [err |-> TableMissingError(name), tables |-> d]
    ELSE [err |-> NoError, tables |-> <<>>]

drop_table(d, name) ==
    IF name \notin Keys(d)
    THEN [err |-> TableMissingError(name), tables |-> d]
    ELSE [err |-> NoError, tables |-> Delete(d, name)]

get_table(d, name) ==
    IF name \notin Keys(d)
    THEN [err |-> TableMissingError(name), table |-> NoTable]
    ELSE [err |-> NoError, table |-> Lookup(d, name)]

\* insert_row that adds the row to every table that takes it
insert_row_everywhere(d, table_name, values) ==
    LET got == get_table(d, table_name)
        added == add_row(got.table, values)
    IN  IF got.err # NoError THEN [err |-> got.err, tables |-> d]
        ELSE [err |-> added.err,
              tables |-> [i \in 1..Len(d) |->
                            [key |-> d[i].key,
                             table |-> add_row(d[i].table, values).table]]]

\* add_row and update_row change the Table object the registry holds
insert_row(d, table_name, values) ==
    LET got == get_table(d, table_name)
        added == add_row(got.table, values)
    IN  IF got.err # NoError THEN [err |-> got.err, tables |-> d]
        ELSE [err |-> added.err, tables |-> Store(d, table_name, added.table)]

\* edit_row that counts rows from 1: update_row(index - 1, values)
edit_row_onebased(d, table_name, index, values) ==
    LET got == get_table(d, table_name)
        updated == update_row(got.table, index - 1, values)
    IN  IF got.err # NoError THEN [err |-> got.err, tables |-> d]
        ELSE [err |-> updated.err, tables |-> Store(d, table_name, updated.table)]

edit_row(d, table_name, index, values) ==
    LET got == get_table(d, table_name)
        updated == update_row(got.table, index, values)
    IN  IF got.err # NoError THEN [err |-> got.err, tables |-> d]
        ELSE [err |-> updated.err, tables |-> Store(d, table_name, updated.table)]

(***************************************************************************)
(* The collaborators that register a union result: each picks a key that   *)
(* is not in the registry, renames the result and stores it.               *)
(***************************************************************************)
NameLimit == 60

Prefix(chars, n) == SubSeq(chars, 1, IF Len(chars) > n THEN n ELSE Len(chars))

\* the name picked without the loop of lines 32 to 36
web_name_first(d, base, name, counter) == name

\* src/web/routers/operations.py: " (counter)" suffixes from 1, within
\* NameLimit characters
RECURSIVE web_name(_, _, _, _)
web_name(d, base, name, counter) ==
    IF name \notin Keys(d) THEN name
    ELSE LET suffix == <<" ", "(">> \o IntToChars(counter) \o <<")">>
             max_base == NameLimit - Len(suffix)
         IN  web_name(d, base, Prefix(base, max_base) \o suffix, counter + 1)

\* default is f"{t1.name}_UNION_{t2.name}"
web_base(requested, default) ==
    Prefix(strip(IF requested # <<>> THEN requested ELSE default), NameLimit)

\* src/desktop/app.py: " (counter)" suffixes from 2
RECURSIVE desktop_name(_, _, _, _)
desktop_name(d, base_name, union_name, counter) ==
    IF union_name \notin Keys(d) THEN union_name
    ELSE desktop_name(d, base_name,
                      base_name \o <<" ", "(">> \o IntToChars(counter) \o <<")">>,
                      counter + 1)

\* src/desktop/persistent_app.py: "_i" suffixes from 2
RECURSIVE persistent_name(_, _, _, _)
persistent_name(d, res_name, name, i) ==
    IF name \notin Keys(d) THEN name
    ELSE persistent_name(d, res_name, res_name \o <<"_">> \o IntToChars(i + 1),
                         i + 1)

\* res.name = name; db.tables[name] = res, after the inputs as the union
\* left them
register(d, left, right, u, name) ==
    Store(Store(Store(d, left, u.table1), right, u.table2),
          name, [u.result EXCEPT !.name = name])

HTTPException(e) == Raise("HTTPException", e.msg, e.args)

(***************************************************************************)
(* Inputs                                                                  *)
(***************************************************************************)
TableNames == {<<"A">>, <<"B">>}

Sempty == <<>>
Sx == << <<"x", "integer">> >>
Sxy == << <<"x", "integer">>, <<"y", "char">> >>
Syx == << <<"y", "integer">>, <<"x", "string">> >>
Sdup == << <<"x", "integer">>, <<"x", "string">> >>

Sy == << <<"y", "char">> >>

\* a column whose type tag is none of SUPPORTED_TYPES
Sbad == << <<"x", "integer">>, <<"y", "int">> >>

SchemaInputs == {Sempty, Sx, Sxy, Syx, Sdup, Sbad}

RowInputs ==
    { <<>>,
      [x |-> PyInt(1)],
      [x |-> PyStr(<<"2">>)],
      [x |-> PyInt(1), y |-> PyStr(<<"a">>)],
      [x |-> PyInt(1), y |-> PyInt(2)] }

\* Python positions: one negative, those of a table of MaxRows rows, and
\* the one after them
IndexInputs == (0 - 1)..MaxRows

RequestedInputs == {<<>>}

\* the table names a caller can pass: the registered ones and TableNames
NameInputs == Keys(tables) \cup TableNames

(***************************************************************************)
(* State: the registry, and the call in progress with the registry before  *)
(* it, the error it raised and what it returned.  The core is synchronous  *)
(* and single-threaded: a call is made only when no call is in progress,   *)
(* and Return hands its outcome to the caller.                             *)
(***************************************************************************)
Call(op, name, right, index, values, sch, requested) ==
    [op |-> op, name |-> name, right |-> right, index |-> index,
     values |-> values, schema |-> sch, requested |-> requested]

RetNone == [kind |-> "None"]

RetTable(t) == [kind |-> "Table", table |-> t]

Idle == Call("", <<>>, <<>>, 0, <<>>, <<>>, <<>>)

Init ==
    /\ tables = <<>>
    /\ call = Idle
    /\ pre = <<>>
    /\ err = NoError
    /\ ret = RetNone

CreateTable(name, sch) ==
    /\ call = Idle
    /\ \E r \in {create_table(tables, name, sch)} :
        /\ r.err = NoError => Len(tables) < MaxTables
        /\ tables' = r.tables
        /\ call' = Call("create_table", name, <<>>, 0, <<>>, sch, <<>>)
        /\ pre' = tables
        /\ err' = r.err
        /\ ret' = IF r.err = NoError THEN RetTable(r.table) ELSE RetNone

DropTable(name) ==
    /\ call = Idle
    /\ \E r \in {drop_table(tables, name)} :
        /\ tables' = r.tables
        /\ call' = Call("drop_table", name, <<>>, 0, <<>>, <<>>, <<>>)
        /\ pre' = tables
        /\ err' = r.err
        /\ ret' = RetNone

InsertRow(name, values) ==
    /\ call = Idle
    /\ \E r \in {insert_row(tables, name, values)} :
        /\ r.err = NoError => Len(Lookup(tables, name).rows) < MaxRows
        /\ tables' = r.tables
        /\ call' = Call("insert_row", name, <<>>, 0, values, <<>>, <<>>)
        /\ pre' = tables
        /\ err' = r.err
        /\ ret' = RetNone

EditRow(name, index, values) ==
    /\ call = Idle
    /\ \E r \in {edit_row(tables, name, index, values)} :
        /\ tables' = r.tables
        /\ call' = Call("edit_row", name, <<>>, index, values, <<>>, <<>>)
        /\ pre' = tables
        /\ err' = r.err
        /\ ret' = RetNone

\* union_tables(t1, t2) on two registered tables, the result not registered
UnionTables(left, right) ==
    /\ call = Idle
    /\ left \in Keys(tables)
    /\ right \in Keys(tables)
    /\ \E first \in FirstConflicts(Lookup(tables, left), Lookup(tables, right)) :
       \E u \in {union_tables(Lookup(tables, left), Lookup(tables, right), first)} :
            /\ tables' = Store(Store(tables, left, u.table1), right, u.table2)
            /\ call' = Call("union_tables", left, right, 0, <<>>, <<>>, <<>>)
            /\ pre' = tables
            /\ err' = u.err
            /\ ret' = IF u.err = NoError THEN RetTable(u.result) ELSE RetNone

\* what a collaborator's union does: look both names up, call union_tables,
\* rename the result to the key it picked (name) and store it; http tells
\* whether an error is re-raised as an HTTPException
\* (a success is followed while the registry has fewer than maxTables tables
\* and the key at most maxLen characters)
RegisterWithin(maxTables, maxLen, op, left, right, requested, name, http) ==
    /\ call = Idle
    /\ call' = Call(op, left, right, 0, <<>>, <<>>, requested)
    /\ pre' = tables
    /\ IF left \notin Keys(tables) \/ right \notin Keys(tables)
       THEN /\ tables' = tables
            /\ err' = LET e == TableMissingError(IF left \notin Keys(tables)
                                                 THEN left ELSE right)
                      IN  IF http THEN HTTPException(e) ELSE e
            /\ ret' = RetNone
       ELSE \E first \in FirstConflicts(Lookup(tables, left), Lookup(tables, right)) :
            \E u \in {union_tables(Lookup(tables, left), Lookup(tables, right), first)} :
                IF u.err # NoError
                THEN /\ tables' = Store(Store(tables, left, u.table1), right, u.table2)
                     /\ err' = IF http THEN HTTPException(u.err) ELSE u.err
                     /\ ret' = RetNone
                ELSE /\ Len(tables) < maxTables
                     /\ Len(name) <= maxLen
                     /\ Len(u.result.rows) <= MaxRows
                     /\ tables' = register(tables, left, right, u, name)
                     /\ err' = NoError
                     /\ ret' = RetTable([u.result EXCEPT !.name = name])

RegisterUnion(op, left, right, requested, name, http) ==
    RegisterWithin(MaxTables, MaxNameLen, op, left, right, requested, name, http)

\* f"{t1.name}_UNION_{t2.name}", the name union_tables gives its result
ResultName(left, right) ==
    IF left \in Keys(tables) /\ right \in Keys(tables)
    THEN Lookup(tables, left).name \o UnionMarker \o Lookup(tables, right).name
    ELSE <<>>

WebUnion(left, right, requested) ==
    IF left = <<>> \/ right = <<>>
    THEN /\ call = Idle
         /\ tables' = tables
         /\ call' = Call("web_union", left, right, 0, <<>>, <<>>, requested)
         /\ pre' = tables
         /\ err' = Raise("HTTPException", "Provide left and right table names", <<>>)
         /\ ret' = RetNone
    ELSE RegisterUnion("web_union", left, right, requested,
             web_name(tables, web_base(requested, ResultName(left, right)),
                      web_base(requested, ResultName(left, right)), 1),
             TRUE)

DesktopUnion(left, right) ==
    RegisterUnion("desktop_union", left, right, <<>>,
        desktop_name(tables, ResultName(left, right), ResultName(left, right), 2),
        FALSE)

PersistentUnion(left, right) ==
    RegisterUnion("persistent_union", left, right, <<>>,
        persistent_name(tables, ResultName(left, right), ResultName(left, right), 1),
        FALSE)

Return ==
    /\ call # Idle
    /\ call' = Idle
    /\ pre' = <<>>
    /\ err' = NoError
    /\ ret' = RetNone
    /\ UNCHANGED tables

Next ==
    \/ Return
    \/ \E name \in NameInputs, sch \in SchemaInputs : CreateTable(name, sch)
    \/ \E name \in NameInputs : DropTable(name)
    \/ \E name \in NameInputs, values \in RowInputs : InsertRow(name, values)
    \/ \E name \in NameInputs, index \in IndexInputs, values \in RowInputs :
           EditRow(name, index, values)
    \/ \E left \in NameInputs, right \in NameInputs : UnionTables(left, right)
    \/ \E left \in NameInputs, right \in NameInputs, requested \in RequestedInputs :
           WebUnion(left, right, requested)
    \/ \E left \in NameInputs, right \in NameInputs : DesktopUnion(left, right)
    \/ \E left \in NameInputs, right \in NameInputs : PersistentUnion(left, right)

Spec == Init /\ [][Next]_vars

(***************************************************************************)
(* The collaborators' unions when the name of the result is taken: the     *)
(* callers unite the tables A and B again and again, and the web caller    *)
(* asks for a name.  The registry holds up to MaxNamedTables tables.       *)
(***************************************************************************)
MaxNamedTables == 3

\* a requested name of NameLimit + 1 characters
LongName == [i \in 1..(NameLimit + 1) |-> "n"]

\* no name, the name of a registered table, blanks, a name to cut
NamedRequests == {<<>>, <<"A">>, <<" ">>, LongName}

CreateNamed(name, sch) ==
    /\ call = Idle
    /\ \E r \in {create_table(tables, name, sch)} :
        /\ r.err = NoError => Len(tables) < MaxNamedTables
        /\ tables' = r.tables
        /\ call' = Call("create_table", name, <<>>, 0, <<>>, sch, <<>>)
        /\ pre' = tables
        /\ err' = r.err
        /\ ret' = IF r.err = NoError THEN RetTable(r.table) ELSE RetNone

WebNamed(left, right, requested) ==
    IF left = <<>> \/ right = <<>>
    THEN /\ call = Idle
         /\ tables' = tables
         /\ call' = Call("web_union", left, right, 0, <<>>, <<>>, requested)
         /\ pre' = tables
         /\ err' = Raise("HTTPException", "Provide left and right table names", <<>>)
         /\ ret' = RetNone
    ELSE RegisterWithin(MaxNamedTables, NameLimit, "web_union", left, right,
             requested,
             web_name(tables, web_base(requested, ResultName(left, right)),
                      web_base(requested, ResultName(left, right)), 1),
             TRUE)

DesktopNamed(left, right) ==
    RegisterWithin(MaxNamedTables, NameLimit, "desktop_union", left, right, <<>>,
        desktop_name(tables, ResultName(left, right), ResultName(left, right), 2),
        FALSE)

PersistentNamed(left, right) ==
    RegisterWithin(MaxNamedTables, NameLimit, "persistent_union", left, right,
        <<>>,
        persistent_name(tables, ResultName(left, right), ResultName(left, right), 1),
        FALSE)

NextNames ==
    \/ Return
    \/ \E name \in TableNames, sch \in {Sx, Syx} : CreateNamed(name, sch)
    \/ \E name \in NameInputs : DropTable(name)
    \/ \E name \in TableNames : InsertRow(name, [x |-> PyInt(1)])
    \/ \E left \in TableNames \cup {<<>>}, right \in TableNames,
          requested \in NamedRequests : WebNamed(left, right, requested)
    \/ \E left \in TableNames, right \in TableNames : DesktopNamed(left, right)
    \/ \E left \in TableNames, right \in TableNames : PersistentNamed(left, right)

SpecNames == Init /\ [][NextNames]_vars

(***************************************************************************)
(* Serialization: to_json / from_json of Column, Row, Table and Database,  *)
(* and save / load through a JSON file.                                    *)
(***************************************************************************)
DatabaseName == <<"d", "e", "s", "k", "t", "o", "p">>

\* the Database object: its name and its registry
Database(name, d) == [name |-> name, tables |-> d]

db == Database(DatabaseName, tables)

Column_to_json(c) == [name |-> c.name, type |-> c.type_name]

Column_from_json(data) == Column(data.name, data.type)

Row_to_json(r) == r

\* Row(values=dict(data))
Row_from_json(data) == [c \in DOMAIN data |-> data[c]]

Table_to_json(t) ==
    [name |-> t.name,
     columns |-> [i \in 1..Len(t.columns) |-> Column_to_json(t.columns[i])],
     rows |-> [i \in 1..Len(t.rows) |-> Row_to_json(t.rows[i])]]

\* Table.from_json that reads the columns and forgets the rows
Table_from_json_norows(data) ==
    Table(data.name,
          [i \in 1..Len(data.columns) |-> Column_from_json(data.columns[i])],
          <<>>)

\* Table.from_json that stores each row as validate_row normalizes it, when
\* it does
Table_from_json_normalizing(data) ==
    LET rows == IF "rows" \in DOMAIN data THEN data.rows ELSE <<>>
        sch == [i \in 1..Len(data.columns) |->
                   <<data.columns[i].name, data.columns[i].type>>]
    IN  Table(data.name,
              [i \in 1..Len(data.columns) |-> Column_from_json(data.columns[i])],
              [i \in 1..Len(rows) |->
                  IF validate_row(sch, rows[i]).err = NoError
                  THEN validate_row(sch, rows[i]).value
                  ELSE Row_from_json(rows[i])])

\* data.get("rows", []): a document without rows gives an empty table
Table_from_json(data) ==
    LET rows == IF "rows" \in DOMAIN data THEN data.rows ELSE <<>>
    IN  Table(data.name,
              [i \in 1..Len(data.columns) |-> Column_from_json(data.columns[i])],
              [i \in 1..Len(rows) |-> Row_from_json(rows[i])])

Database_to_json(database) ==
    [name |-> database.name,
     tables |-> [i \in 1..Len(database.tables) |->
                    Table_to_json(database.tables[i].table)]]

\* db.tables[table.name] = table, for the documents from position i on
RECURSIVE load_tables(_, _, _)
load_tables(d, docs, i) ==
    IF i > Len(docs) THEN d
    ELSE load_tables(Store(d, Table_from_json(docs[i]).name,
                           Table_from_json(docs[i])),
                     docs, i + 1)

\* Database.from_json that registers each table under its position
Database_from_json_indexed(data) ==
    Database(IF "name" \in DOMAIN data THEN data.name
             ELSE <<"d", "a", "t", "a", "b", "a", "s", "e">>,
             [i \in 1..(IF "tables" \in DOMAIN data THEN Len(data.tables) ELSE 0) |->
                [key |-> IntToChars(i), table |-> Table_from_json(data.tables[i])]])

Database_from_json(data) ==
    Database(IF "name" \in DOMAIN data THEN data.name
             ELSE <<"d", "a", "t", "a", "b", "a", "s", "e">>,
             load_tables(<<>>, IF "tables" \in DOMAIN data THEN data.tables ELSE <<>>, 1))

\* json.dump / json.load of one value: the JSON token of a Python value and
\* the Python value of a token
json_dump(v) ==
    [j |-> CASE v.k = "NoneType" -> "null"
             [] v.k = "bool" -> IF v.n = 1 THEN "true" ELSE "false"
             [] v.k = "int" -> "integer"
             [] v.k = "float" -> "fraction"
             [] v.k = "str" -> "string"
             [] v.k = "dict" -> "object"
             [] v.k = "list" -> "array"
             [] OTHER -> "TypeError",
     n |-> v.n, s |-> v.s, e |-> v.e]

json_load(token) ==
    CASE token.j = "null" -> PyNone
      [] token.j = "true" -> PyBool(TRUE)
      [] token.j = "false" -> PyBool(FALSE)
      [] token.j = "integer" -> PyInt(token.n)
      [] token.j = "fraction" -> PyFloat(token.n)
      [] token.j = "string" -> PyStr(token.s)
      [] token.j = "object" -> PyInterval(token.s, token.e)
      [] token.j = "array" -> PyList(token.s, token.e)

\* json.dump(self.to_json(), f): the content of the file that save writes
save(database) ==
    LET data == Database_to_json(database)
    IN  [name |-> data.name,
         tables |-> [i \in 1..Len(data.tables) |->
            [name |-> data.tables[i].name,
             columns |-> data.tables[i].columns,
             rows |-> [k \in 1..Len(data.tables[i].rows) |->
                        [c \in DOMAIN data.tables[i].rows[k] |->
                            json_dump(data.tables[i].rows[k][c])]]]]]

\* json.load(f)
json_load_file(file) ==
    [name |-> file.name,
     tables |-> [i \in 1..Len(file.tables) |->
        [name |-> file.tables[i].name,
         columns |-> file.tables[i].columns,
         rows |-> [k \in 1..Len(file.tables[i].rows) |->
                    [c \in DOMAIN file.tables[i].rows[k] |->
                        json_load(file.tables[i].rows[k][c])]]]]]

\* the Database that load reads from a file
load(file) == Database_from_json(json_load_file(file))

\* documents that no to_json call of the model produced: one with two
\* tables of the same name, one whose row does not fit its columns, one
\* with neither a name nor rows
DocTwice ==
    [name |-> DatabaseName,
     tables |-> << [name |-> <<"A">>,
                    columns |-> << [name |-> "x", type |-> "integer"] >>,
                    rows |-> << [x |-> PyInt(1)] >>],
                   [name |-> <<"A">>, columns |-> <<>>, rows |-> <<>>] >>]

DocRaw ==
    [name |-> DatabaseName,
     tables |-> << [name |-> <<"B">>,
                    columns |-> << [name |-> "x", type |-> "integer"] >>,
                    rows |-> << [y |-> PyStr(<<"2">>)],
                                [x |-> PyStr(<<"2">>)] >>] >>]

DocBare ==
    [tables |-> << [name |-> <<"B">>,
                    columns |-> << [name |-> "x", type |-> "integer"] >>] >>]

JsonInputs == {DocTwice, DocRaw, DocBare}

RetDatabase(database) == [kind |-> "Database", db |-> database]

\* the application replaces its database by Database.from_json(data)
FromJson(data) ==
    /\ call = Idle
    /\ \E r \in {Database_from_json(data)} :
        /\ tables' = r.tables
        /\ call' = Call("from_json", <<>>, <<>>, 0, data, <<>>, <<>>)
        /\ pre' = tables
        /\ err' = NoError
        /\ ret' = RetDatabase(r)

\* db.save(path) followed by Database.load(path)
SaveLoad ==
    /\ call = Idle
    /\ \E r \in {load(save(db))} :
        /\ tables' = r.tables
        /\ call' = Call("load", <<>>, <<>>, 0, save(db), <<>>, <<>>)
        /\ pre' = tables
        /\ err' = NoError
        /\ ret' = RetDatabase(r)

NextJson ==
    \/ Next
    \/ \E data \in JsonInputs \cup {Database_to_json(db)} : FromJson(data)
    \/ SaveLoad

SpecJson == Init /\ [][NextJson]_vars

(***************************************************************************)
(* The validator on its own: normalize and validate_row are static methods *)
(* and are called here on values and rows of every shape the validator     *)
(* tells apart.                                                            *)
(***************************************************************************)
Chars2024 == <<"2", "0", "2", "4", "-", "0", "2", "-", "2", "9">>
Chars2023 == <<"2", "0", "2", "3", "-", "0", "2", "-", "2", "9">>
Chars2025 == <<"2", "0", "2", "5", "-", "0", "1", "-", "0", "1">>

\* 2^63 - 1, 2^63 and -(2^63 + 1)
Int64MaxChars == SubSeq(Two63, 1, 18) \o <<"7">>
AboveInt64Chars == Two63
BelowInt64Chars == <<"-">> \o SubSeq(Two63, 1, 18) \o <<"9">>

ValueInputs ==
    { PyNone, PyBool(TRUE), PyBool(FALSE),
      PyInt(0), PyInt(0 - 3), PyInt(12),
      PyLong(Int64MaxChars), PyLong(AboveInt64Chars), PyLong(BelowInt64Chars),
      PyFloat(15), PyFloat(0 - 25), PyFloat(20),
      PyStr(<<>>), PyStr(<<"7">>), PyStr(<<" ", "4", "2", " ">>),
      PyStr(<<"-", "5">>), PyStr(<<"1", "_", "0">>), PyStr(<<"1", ".", "5">>),
      PyStr(<<"a">>), PyStr(<<"a", "b">>), PyStr(<<"N", "o", "n", "e">>),
      PyStr(Int64MaxChars), PyStr(AboveInt64Chars), PyStr(BelowInt64Chars),
      PyStr(Chars2024), PyStr(Chars2023),
      PyStr(<<"2", "0", "2", "4", "0", "2", "2", "9">>),
      PyStr(Chars2024 \o <<".", ".">> \o Chars2025),
      PyStr(Chars2025 \o <<".", ".">> \o Chars2024),
      PyStr(Chars2024 \o <<".", ".">> \o Chars2024),
      PyStr(Chars2024 \o <<".", ".">>),
      PyDate(Chars2024),
      PyInterval(Chars2024, Chars2025), PyInterval(Chars2025, Chars2024),
      PyInterval(Chars2024, Chars2023), PyInterval(Chars2024, Chars2024),
      PyList(Chars2024, Chars2025), PyList(Chars2025, Chars2024),
      PyList(Chars2024, Chars2024) }

TypeInputs == SUPPORTED_TYPES \cup {"dateInterval", "int", ""}

\* the dicts with keys among x and y and values among CellInputs
CellInputs ==
    {PyNone, PyInt(1), PyStr(<<"2">>), PyStr(<<"a">>), PyStr(<<"a", "b">>)}

DictInputs ==
    UNION {[keys -> CellInputs] : keys \in SUBSET {"x", "y"}}

ValidatorSchemas == {Sempty, Sx, Sy, Sxy, Syx, Sbad}

\* one column x of each type tag, and the rows that give it each value
TypedSchemas == {<< <<"x", type_name>> >> : type_name \in TypeInputs}

TypedRows == {[x |-> value] : value \in ValueInputs}

RetValue(v) == [kind |-> "Value", value |-> v]

\* TypeValidator.normalize(value, type_name); the call is recorded with the
\* value under the key value and the tag as a one-column schema
Normalize(value, type_name) ==
    /\ call = Idle
    /\ \E r \in {normalize(value, type_name)} :
        /\ call' = Call("normalize", <<>>, <<>>, 0, [value |-> value],
                        << <<"value", type_name>> >>, <<>>)
        /\ pre' = tables
        /\ err' = r.err
        /\ ret' = IF r.err = NoError THEN RetValue(r.value) ELSE RetNone
        /\ UNCHANGED tables

\* TypeValidator.validate_row(schema, values)
ValidateRow(sch, values) ==
    /\ call = Idle
    /\ \E r \in {validate_row(sch, values)} :
        /\ call' = Call("validate_row", <<>>, <<>>, 0, values, sch, <<>>)
        /\ pre' = tables
        /\ err' = r.err
        /\ ret' = IF r.err = NoError THEN RetValue(r.value) ELSE RetNone
        /\ UNCHANGED tables

\* Table.from_schema(name, sch).add_row(values)
AddRow(sch, values) ==
    /\ call = Idle
    /\ \E r \in {add_row(from_schema(<<"T">>, sch), values)} :
        /\ call' = Call("add_row", <<"T">>, <<>>, 0, values, sch, <<>>)
        /\ pre' = tables
        /\ err' = r.err
        /\ ret' = RetTable(r.table)
        /\ UNCHANGED tables

\* update_row(0, values) on a table of one row, old as add_row stored it
UpdateRow(sch, old, values) ==
    /\ call = Idle
    /\ add_row(from_schema(<<"T">>, sch), old).err = NoError
    /\ \E r \in {update_row(add_row(from_schema(<<"T">>, sch), old).table,
                            0, values)} :
        /\ call' = Call("update_row", <<"T">>, <<>>, 0, values, sch, <<>>)
        /\ pre' = tables
        /\ err' = r.err
        /\ ret' = RetTable(r.table)
        /\ UNCHANGED tables

\* a table of the given schema and, when the row is valid for it, that row
TableOf(name, sch, row) == add_row(from_schema(name, sch), row).table

\* union_tables of two tables that are in no Database
TableUnion(schA, rowA, schB, rowB) ==
    /\ call = Idle
    /\ \E first \in FirstConflicts(TableOf(<<"A">>, schA, rowA),
                                   TableOf(<<"B">>, schB, rowB)) :
       \E u \in {union_tables(TableOf(<<"A">>, schA, rowA),
                              TableOf(<<"B">>, schB, rowB), first)} :
        /\ call' = Call("table_union", <<"A">>, <<"B">>, 0,
                        [table1 |-> TableOf(<<"A">>, schA, rowA),
                         table2 |-> TableOf(<<"B">>, schB, rowB)],
                        <<>>, <<>>)
        /\ pre' = tables
        /\ err' = u.err
        /\ ret' = IF u.err = NoError THEN RetTable(u.result) ELSE RetNone
        /\ UNCHANGED tables

NextValidator ==
    \/ Return
    \/ \E value \in ValueInputs, type_name \in TypeInputs :
           Normalize(value, type_name)
    \/ \E sch \in ValidatorSchemas, values \in DictInputs : ValidateRow(sch, values)
    \/ \E sch \in ValidatorSchemas, values \in DictInputs : AddRow(sch, values)
    \/ \E sch \in TypedSchemas, values \in TypedRows : AddRow(sch, values)
    \/ \E schA \in ValidatorSchemas, rowA \in DictInputs,
          schB \in ValidatorSchemas, rowB \in DictInputs :
           TableUnion(schA, rowA, schB, rowB)
    \/ \E sch \in ValidatorSchemas, old \in DictInputs, values \in DictInputs :
           UpdateRow(sch, old, values)

SpecValidator == Init /\ [][NextValidator]_vars

(***************************************************************************)
(* Tables as objects.  A Table holds its rows in a list object, which      *)
(* add_row and update_row change in place (self.rows.append,               *)
(* self.rows[index] = ...); two tables that held the same list would see   *)
(* each other's changes.  Here tables is the record of the list objects    *)
(* (lists, a list's identity being its position) and of the variables of   *)
(* a caller (names: A, B and the union result R), and a Table's rows field *)
(* is the identity of its list.  A Row is never changed after it is        *)
(* built, nor is a list of columns: they are kept as values.               *)
(***************************************************************************)
MaxLists == 3

OwnedNames == {<<"A">>, <<"B">>}

ResultVar == <<"R">>

\* the table with the content of its list of rows
Deref(objects, t) == [t EXCEPT !.rows = objects.lists[t.rows]]

TableAt(objects, name) == Deref(objects, Lookup(objects.names, name))

\* list(): a new list object
NewList(objects) == Len(objects.lists) + 1

\* union_tables whose result takes the list of rows of table1:
\* result.rows = table1.rows
union_rows_shared(objects, table1, table2) == table1.rows

\* the list of rows of the result of union_tables: that of the new Table of
\* from_schema, a list of its own (field(default_factory=list))
union_rows(objects, table1, table2) == NewList(objects)

InitOwned ==
    /\ tables = [lists |-> <<>>, names |-> <<>>]
    /\ call = Idle
    /\ pre = <<>>
    /\ err = NoError
    /\ ret = RetNone

\* name = Table.from_schema(name, sch)
NewTable(name, sch) ==
    /\ call = Idle
    /\ name \notin Keys(tables.names)
    /\ Len(tables.lists) < MaxLists
    /\ tables' = [lists |-> Append(tables.lists, from_schema(name, sch).rows),
                  names |-> Store(tables.names, name,
                                  [from_schema(name, sch) EXCEPT
                                      !.rows = NewList(tables)])]
    /\ call' = Call("from_schema", name, <<>>, 0, <<>>, sch, <<>>)
    /\ pre' = tables
    /\ err' = NoError
    /\ ret' = RetNone

\* name.add_row(values): the list of the table is changed in place
OwnedAddRow(name, values) ==
    /\ call = Idle
    /\ name \in Keys(tables.names)
    /\ \E r \in {add_row(TableAt(tables, name), values)} :
        /\ r.err = NoError => Len(TableAt(tables, name).rows) < MaxRows
        /\ tables' = [tables EXCEPT
                         !.lists[Lookup(tables.names, name).rows] = r.table.rows]
        /\ call' = Call("add_row", name, <<>>, 0, values, <<>>, <<>>)
        /\ pre' = tables
        /\ err' = r.err
        /\ ret' = RetNone

\* name.update_row(index, values)
OwnedUpdateRow(name, index, values) ==
    /\ call = Idle
    /\ name \in Keys(tables.names)
    /\ \E r \in {update_row(TableAt(tables, name), index, values)} :
        /\ tables' = [tables EXCEPT
                         !.lists[Lookup(tables.names, name).rows] = r.table.rows]
        /\ call' = Call("update_row", name, <<>>, index, values, <<>>, <<>>)
        /\ pre' = tables
        /\ err' = r.err
        /\ ret' = RetNone

\* R = union_tables(left, right): the rows go to the list of the result,
\* the lists of the inputs are as the call left them
OwnedUnion(left, right) ==
    /\ call = Idle
    /\ left \in Keys(tables.names)
    /\ right \in Keys(tables.names)
    /\ call' = Call("union_tables", left, right, 0, <<>>, <<>>, <<>>)
    /\ pre' = tables
    /\ \E first \in FirstConflicts(TableAt(tables, left), TableAt(tables, right)) :
       \E u \in {union_tables(TableAt(tables, left), TableAt(tables, right), first)} :
           IF u.err # NoError
           THEN /\ tables' = tables
                /\ err' = u.err
                /\ ret' = RetNone
           ELSE LET t1 == Lookup(tables.names, left)
                    t2 == Lookup(tables.names, right)
                    rows == union_rows(tables, t1, t2)
                    inputs == [[tables.lists EXCEPT ![t1.rows] = u.table1.rows]
                                  EXCEPT ![t2.rows] = u.table2.rows]
                IN  /\ Len(tables.lists) < MaxLists
                    /\ Len(u.result.rows) <= MaxRows
                    /\ tables' =
                          [lists |-> [i \in 1..(IF rows > Len(inputs) THEN rows
                                                ELSE Len(inputs)) |->
                                        IF i = rows THEN u.result.rows
                                        ELSE inputs[i]],
                           names |-> Store(tables.names, ResultVar,
                                           [u.result EXCEPT !.rows = rows])]
                    /\ err' = NoError
                    /\ ret' = RetTable(u.result)

NextOwned ==
    \/ Return
    \/ \E name \in OwnedNames, sch \in {Sx, Sxy} : NewTable(name, sch)
    \/ \E name \in OwnedNames \cup {ResultVar}, values \in RowInputs :
           OwnedAddRow(name, values)
    \/ \E name \in OwnedNames \cup {ResultVar}, index \in IndexInputs,
          values \in RowInputs : OwnedUpdateRow(name, index, values)
    \/ \E left \in OwnedNames, right \in OwnedNames : OwnedUnion(left, right)

SpecOwned == InitOwned /\ [][NextOwned]_vars

(***************************************************************************)
(* Vocabulary of the properties.  A call is in progress from the action    *)
(* that makes it until Return: pre is the registry before it, tables the   *)
(* registry after it.                                                      *)
(***************************************************************************)
UnionOps == {"union_tables", "web_union", "desktop_union", "persistent_union"}

\* union_tables was called, on the tables registered as call.name and
\* call.right
UnionCalled ==
    /\ call.op \in UnionOps
    /\ call.name \in Keys(pre)
    /\ call.right \in Keys(pre)

ArgA == Lookup(pre, call.name)

ArgB == Lookup(pre, call.right)

ColumnNamesOf(t) == {t.columns[i].name : i \in 1..Len(t.columns)}

ColumnSetOf(t) ==
    {<<t.columns[i].name, t.columns[i].type_name>> : i \in 1..Len(t.columns)}

\* the columns the two tables share by name are declared with equal types
UnionCompatible(a, b) ==
    \A i \in 1..Len(a.columns) : \A j \in 1..Len(b.columns) :
        a.columns[i].name = b.columns[j].name
            => a.columns[i].type_name = b.columns[j].type_name

UnionSucceeded == UnionCalled /\ err = NoError /\ ret.kind = "Table"

UnionSchema ==
    (UnionCalled /\ UnionCompatible(ArgA, ArgB))
        => /\ UnionSucceeded
           /\ ret.table.columns =
                ArgA.columns
                \o SelectSeq(ArgB.columns,
                             LAMBDA c : c.name \notin ColumnNamesOf(ArgA))
           /\ SubSeq(ret.table.columns, 1, Len(ArgA.columns)) = ArgA.columns
           /\ ColumnSetOf(ret.table) = ColumnSetOf(ArgA) \cup ColumnSetOf(ArgB)

\* the second table shares a column with the first and adds one
UnionSchemaWitness ==
    /\ UnionSucceeded
    /\ ColumnNamesOf(ArgA) \cap ColumnNamesOf(ArgB) # {}
    /\ ColumnNamesOf(ArgB) \ ColumnNamesOf(ArgA) # {}
    /\ Len(ret.table.columns) = Len(ArgA.columns) + 1

UnionIncompatibleFails ==
    (UnionCalled /\ ~UnionCompatible(ArgA, ArgB))
        => /\ err.msg = "Incompatible schemas"
           /\ \E i \in 1..Len(ArgA.columns) : \E j \in 1..Len(ArgB.columns) :
                 /\ ArgA.columns[i].name = ArgB.columns[j].name
                 /\ ArgA.columns[i].type_name # ArgB.columns[j].type_name
                 /\ err.args = <<ArgA.columns[i].name, ArgA.columns[i].type_name,
                                 ArgB.columns[j].type_name>>
           /\ ret = RetNone
           /\ tables = pre

\* a collaborator's union of two tables in conflict on two columns, both
\* with rows
UnionIncompatibleFailsWitness ==
    /\ UnionCalled
    /\ call.op # "union_tables"
    /\ err.msg = "Incompatible schemas"
    /\ Cardinality(ColumnNamesOf(ArgA) \cap ColumnNamesOf(ArgB)) = 2
    /\ ArgA.columns[1].name # ArgB.columns[1].name
    /\ Len(ArgA.rows) >= 1
    /\ Len(ArgB.rows) >= 1

UnionInputsUnchanged ==
    call.op \in UnionOps
        => \A key \in {call.name, call.right} \cap Keys(pre) :
              /\ key \in Keys(tables)
              /\ Lookup(tables, key) = Lookup(pre, key)

\* a union that padded the rows of both inputs' sides it had to
UnionInputsUnchangedWitness ==
    /\ UnionSucceeded
    /\ call.name # call.right
    /\ Len(ArgB.rows) >= 1
    /\ DOMAIN ret.table.rows[Len(ret.table.rows)] # DOMAIN ArgB.rows[Len(ArgB.rows)]
    /\ Lookup(tables, call.right) = ArgB

RowOps == {"insert_row", "edit_row"}

\* add_row or update_row was called, on the table registered as call.name
RowOpCalled == call.op \in RowOps /\ call.name \in Keys(pre)

(***************************************************************************)
(* C7: when add_row or update_row fails validation (a ValueError of        *)
(* validate_row), the table's rows are what they were before the call.     *)
(***************************************************************************)
FailedValidationKeepsRows ==
    (RowOpCalled /\ err.exc = "ValueError")
        => /\ call.name \in Keys(tables)
           /\ Lookup(tables, call.name).rows = ArgA.rows
           /\ tables = pre

\* add_row fails on the second column after the first normalized, on a
\* table that has a row
FailedValidationKeepsRowsWitness ==
    /\ RowOpCalled
    /\ call.op = "insert_row"
    /\ Len(ArgA.rows) = 1
    /\ Len(ArgA.columns) = 2
    /\ DOMAIN call.values = ColumnNamesOf(ArgA)
    /\ normalize(call.values[ArgA.columns[1].name],
                 ArgA.columns[1].type_name).err = NoError
    /\ err.msg = "Invalid char"

(***************************************************************************)
(* C8: a created table has no rows; a successful add_row appends exactly   *)
(* the normalized values, after the rows already there (equal rows too); a *)
(* failed add_row leaves the rows and their positions as they were.        *)
(***************************************************************************)
AddRowAppends ==
    /\ (call.op = "create_table" /\ err = NoError)
          => get_rows(Lookup(tables, call.name)) = <<>>
    /\ (call.op = "insert_row" /\ call.name \in Keys(pre))
          => LET after == get_rows(Lookup(tables, call.name))
                 names == ColumnNamesOf(ArgA)
             IN  IF err = NoError
                 THEN /\ Len(after) = Len(ArgA.rows) + 1
                      /\ SubSeq(after, 1, Len(ArgA.rows)) = get_rows(ArgA)
                      /\ DOMAIN after[Len(after)] = names
                      /\ \A i \in 1..Len(ArgA.columns) :
                            after[Len(after)][ArgA.columns[i].name] =
                                normalize(call.values[ArgA.columns[i].name],
                                          ArgA.columns[i].type_name).value
                 ELSE after = get_rows(ArgA)

\* the str "2" is added after the integer 1 and stored as the integer 2
AddRowAppendsWitness ==
    /\ call.op = "insert_row"
    /\ err = NoError
    /\ call.values = [x |-> PyStr(<<"2">>)]
    /\ get_rows(Lookup(tables, call.name)) = <<[x |-> PyInt(1)], [x |-> PyInt(2)]>>

(***************************************************************************)
(* C9: update_row with an index below 0 or not below the number of rows    *)
(* fails with IndexError, whatever the values, and changes nothing.        *)
(***************************************************************************)
UpdateOutOfRangeFails ==
    (/\ call.op = "edit_row"
     /\ call.name \in Keys(pre)
     /\ (call.index < 0 \/ call.index >= Len(ArgA.rows)))
        => /\ err.exc = "IndexError"
           /\ tables = pre

\* a negative index on a table of two rows, with values the table accepts
UpdateOutOfRangeFailsWitness ==
    /\ call.op = "edit_row"
    /\ call.name \in Keys(pre)
    /\ call.index < 0
    /\ Len(ArgA.rows) = 2
    /\ validate_row(schema(ArgA), call.values).err = NoError
    /\ err.exc = "IndexError"

(***************************************************************************)
(* C10: every row of every registered table, and of every table a call     *)
(* returns, has exactly the table's column names as its keys.              *)
(***************************************************************************)
RowKeysOf(t) == \A i \in 1..Len(t.rows) : DOMAIN t.rows[i] = ColumnNamesOf(t)

RowKeysMatchColumns ==
    /\ \A i \in 1..Len(tables) : RowKeysOf(tables[i].table)
    /\ ret.kind = "Table" => RowKeysOf(ret.table)

\* a row of a registered union result has been replaced
RowKeysMatchColumnsWitness ==
    /\ call.op = "edit_row"
    /\ err = NoError
    /\ call.name \notin TableNames
    /\ Len(Lookup(tables, call.name).rows) = 2
    /\ Lookup(tables, call.name).rows[1] # Lookup(tables, call.name).rows[2]

(***************************************************************************)
(* C11: create_table with a name that is already registered fails with     *)
(* the table-already-exists error whatever the schema is (valid or with    *)
(* duplicate columns or unsupported types); the registered table keeps its *)
(* columns and rows and the registry's keys are unchanged.                 *)
(***************************************************************************)
CreateExistingFails ==
    (call.op = "create_table" /\ call.name \in Keys(pre)) =>
        /\ err = TableExistsError(call.name)
        /\ ret = RetNone
        /\ Keys(tables) = Keys(pre)
        /\ Lookup(tables, call.name) = Lookup(pre, call.name)
        /\ tables = pre

\* a second create_table, with a schema that has a duplicate column, on a
\* table that holds a row
CreateExistingFailsWitness ==
    /\ call.op = "create_table"
    /\ call.name \in Keys(pre)
    /\ DuplicateAt(call.schema) # 0
    /\ Lookup(pre, call.name).rows # <<>>
    /\ err = TableExistsError(call.name)

(***************************************************************************)
(* C12: create_table with an unused name and a schema in which a column    *)
(* name occurs twice fails with a duplicate-column error, which differs    *)
(* from the table-already-exists error, and registers nothing: the         *)
(* registry is unchanged and get_table(name) fails afterwards.             *)
(***************************************************************************)
CreateDuplicateColumnFails ==
    (/\ call.op = "create_table"
     /\ call.name \notin Keys(pre)
     /\ DuplicateAt(call.schema) # 0) =>
        /\ err.exc = "ValueError"
        /\ err.msg = "Duplicate column name"
        /\ err.args = <<call.schema[DuplicateAt(call.schema)][1]>>
        /\ err.msg # TableExistsError(call.name).msg
        /\ ret = RetNone
        /\ tables = pre
        /\ get_table(tables, call.name).err = TableMissingError(call.name)

\* the duplicate-column failure happened while another table was registered
CreateDuplicateColumnFailsWitness ==
    /\ call.op = "create_table"
    /\ call.name \notin Keys(pre)
    /\ DuplicateAt(call.schema) # 0
    /\ pre # <<>>
    /\ err.msg = "Duplicate column name"

(***************************************************************************)
(* C13: in every state reachable through create_table, drop_table,         *)
(* insert_row, edit_row, Database.from_json and the registration of union  *)
(* results, every entry of Database.tables is a table whose name is its    *)
(* key: tables[name].name = name.                                          *)
(***************************************************************************)
KeyIsTableName ==
    \A i \in 1..Len(tables) : tables[i].table.name = tables[i].key

\* a document that was not written by to_json replaced a registry that
\* held a registered union result
KeyIsTableNameWitness ==
    /\ call.op = "from_json"
    /\ call.values \in JsonInputs
    /\ tables # <<>>
    /\ tables # pre
    /\ \E i \in 1..Len(pre) : Len(pre[i].key) > 1

(***************************************************************************)
(* C14: drop_table(name) on a registered name removes exactly that entry;  *)
(* from then on get_table(name), insert_row(name, ...), edit_row and       *)
(* drop_table(name) fail with the not-found error, and no operation of the *)
(* Database other than create_table(name, ...) registers the name again;   *)
(* drop_table on an unregistered name fails with the not-found error and   *)
(* leaves the registry unchanged.                                          *)
(***************************************************************************)
DatabaseOps == {"create_table", "drop_table", "insert_row", "edit_row"}

DropRemovesEntry ==
    (call.op = "drop_table" /\ call.name \in Keys(pre)) =>
        /\ err = NoError
        /\ Len(tables) = Len(pre) - 1
        /\ call.name \notin Keys(tables)
        /\ \A n \in Keys(pre) \ {call.name} :
              n \in Keys(tables) /\ Lookup(tables, n) = Lookup(pre, n)
        /\ get_table(tables, call.name).err = TableMissingError(call.name)

UnregisteredFails ==
    (call.op \in {"drop_table", "insert_row", "edit_row"}
        /\ call.name \notin Keys(pre)) =>
        /\ err = TableMissingError(call.name)
        /\ err.exc = "ValueError"
        /\ tables = pre

OnlyCreateRegisters ==
    \A n \in Keys(tables') \ Keys(tables) :
        call'.op \in DatabaseOps => (call'.op = "create_table" /\ call'.name = n)

DropTableRemoves ==
    /\ [](DropRemovesEntry /\ UnregisteredFails)
    /\ [][OnlyCreateRegisters]_vars

\* a table holding a row was dropped while another table was registered
DropTableRemovesWitness ==
    /\ call.op = "drop_table"
    /\ call.name \in Keys(pre)
    /\ Lookup(pre, call.name).rows # <<>>
    /\ Len(pre) = 2
    /\ Len(tables) = 1

(***************************************************************************)
(* C15: for every reachable Database, from_json(to_json(db)) is db again:  *)
(* the same name, the same tables in the same order, each with the same    *)
(* name, ordered columns and ordered rows with equal values (None          *)
(* included); the same holds for Table.from_json(t.to_json()), also on a   *)
(* union result, and for save followed by load.                            *)
(***************************************************************************)
TableRoundTrip(t) ==
    /\ Table_from_json(Table_to_json(t)) = t
    /\ \A k \in 1..Len(t.rows) : \A c \in DOMAIN t.rows[k] :
          json_load(json_dump(t.rows[k][c])) = t.rows[k][c]

DelegatesTo(outcome) ==
    /\ err = outcome.err
    /\ Lookup(tables, call.name) = outcome.table
    /\ Keys(tables) = Keys(pre)
    /\ \A n \in Keys(pre) \ {call.name} : Lookup(tables, n) = Lookup(pre, n)

RowOpsDelegate ==
    /\ (call.op = "insert_row" /\ call.name \in Keys(pre)) =>
          DelegatesTo(add_row(get_table(pre, call.name).table, call.values))
    /\ (call.op = "edit_row" /\ call.name \in Keys(pre)) =>
          DelegatesTo(update_row(get_table(pre, call.name).table,
                                 call.index, call.values))
    /\ (call.op \in {"insert_row", "edit_row"} /\ call.name \notin Keys(pre)) =>
          /\ err = TableMissingError(call.name)
          /\ tables = pre

\* edit_row replaced the second row of the second table
RowOpsDelegateWitness ==
    /\ call.op = "edit_row"
    /\ Len(pre) = 2
    /\ call.name = pre[2].key
    /\ call.index = 1
    /\ err = NoError
    /\ tables # pre

(***************************************************************************)
(* C17: validate_row(schema, values) succeeds exactly when the keys of     *)
(* values are the schema's column names and every value normalizes to its  *)
(* column's type; a key that is no column fails it (unexpected columns), a *)
(* column without a key fails it, so add_row and update_row accept no      *)
(* partial row; on success the result maps each column name to             *)
(* normalize(value, type).                                                 *)
(***************************************************************************)
AllNormalize(sch, values) ==
    \A i \in 1..Len(sch) :
        /\ sch[i][1] \in DOMAIN values
        /\ normalize(values[sch[i][1]], sch[i][2]).err = NoError

IsNormalized(sch, values, row) ==
    /\ DOMAIN row = SchemaNames(sch)
    /\ \A i \in 1..Len(sch) :
          row[sch[i][1]] = normalize(values[sch[i][1]], sch[i][2]).value

ValidateRowExact ==
    /\ call.op \in {"validate_row", "add_row", "update_row"} =>
          /\ err = NoError <=>
                (DOMAIN call.values = SchemaNames(call.schema)
                    /\ AllNormalize(call.schema, call.values))
          /\ (DOMAIN call.values) \ SchemaNames(call.schema) # {} =>
                /\ err.exc = "ValueError"
                /\ err.msg = "Unexpected columns"
                /\ err.args = <<(DOMAIN call.values) \ SchemaNames(call.schema)>>
          /\ SchemaNames(call.schema) \ (DOMAIN call.values) # {} =>
                err.exc = "ValueError"
    /\ (call.op = "validate_row" /\ err = NoError) =>
          IsNormalized(call.schema, call.values, ret.value)
    /\ (call.op = "add_row" /\ err = NoError) =>
          /\ Len(ret.table.rows) = 1
          /\ IsNormalized(call.schema, call.values, ret.table.rows[1])
    /\ (call.op = "add_row" /\ err # NoError) => ret.table.rows = <<>>
    /\ (call.op = "update_row" /\ err = NoError) =>
          /\ Len(ret.table.rows) = 1
          /\ IsNormalized(call.schema, call.values, ret.table.rows[1])

\* update_row was refused a row that has one of the table's two columns and
\* no other key
ValidateRowExactWitness ==
    /\ call.op = "update_row"
    /\ Len(call.schema) = 2
    /\ DOMAIN call.values = {call.schema[2][1]}
    /\ err.msg = "Missing value for column"
    /\ Len(ret.table.rows) = 1

(***************************************************************************)
(* C18, as amended: every row that add_row or update_row stores is in      *)
(* normalized form: validate_row(table.schema, row) succeeds and returns   *)
(* the row unchanged.  A row of a union result holds, in the columns its   *)
(* source table has, the source row's normalized values, and None in the   *)
(* columns its source table lacks.                                         *)
(***************************************************************************)
Revalidates(t, row) == validate_row(schema(t), row) = [err |-> NoError, value |-> row]

\* the input table that row k of a union result comes from, and that row
SourceTable(k) ==
    IF k <= Len(call.values.table1.rows) THEN call.values.table1
    ELSE call.values.table2

SourceRow(k) ==
    IF k <= Len(call.values.table1.rows) THEN call.values.table1.rows[k]
    ELSE call.values.table2.rows[k - Len(call.values.table1.rows)]

StoredRowsNormalized ==
    /\ (call.op \in {"add_row", "update_row"} /\ err = NoError) =>
          \A k \in 1..Len(ret.table.rows) : Revalidates(ret.table, ret.table.rows[k])
    /\ (call.op = "table_union" /\ err = NoError) =>
          \A k \in 1..Len(ret.table.rows) :
              /\ Revalidates(SourceTable(k), SourceRow(k))
              /\ \A i \in 1..Len(ret.table.columns) :
                    LET c == ret.table.columns[i].name
                    IN  IF c \in ColumnNamesOf(SourceTable(k))
                        THEN ret.table.rows[k][c] = SourceRow(k)[c]
                        ELSE ret.table.rows[k][c] = PyNone

\* a union of two tables of one row each padded the first table's row
\* with None next to the value it had
StoredRowsNormalizedWitness ==
    /\ call.op = "table_union"
    /\ err = NoError
    /\ Len(ret.table.rows) = 2
    /\ \E c \in DOMAIN ret.table.rows[1] : ret.table.rows[1][c] = PyNone
    /\ \E c \in DOMAIN ret.table.rows[1] : ret.table.rows[1][c] # PyNone
    /\ \A c \in DOMAIN ret.table.rows[2] : ret.table.rows[2][c] # PyNone

(***************************************************************************)
(* C18, as stated: every stored row, the rows of a union result included,  *)
(* is in normalized form for its table's columns: validate_row(schema,     *)
(* row) succeeds and returns the row unchanged.                            *)
(***************************************************************************)
EveryRowRevalidates ==
    (call.op \in {"add_row", "update_row", "table_union"} /\ err = NoError) =>
        \A k \in 1..Len(ret.table.rows) : Revalidates(ret.table, ret.table.rows[k])

(***************************************************************************)
(* C19: create_table fails with a schema error, and registers no table,    *)
(* whenever a column of the schema declares a type tag that is not one of  *)
(* the six supported tags; so every registered table has only supported    *)
(* column types.                                                           *)
(***************************************************************************)
HasUnsupportedType(sch) ==
    \E i \in 1..Len(sch) : sch[i][2] \notin SUPPORTED_TYPES

CreateRejectsUnsupportedType ==
    /\ (call.op = "create_table" /\ HasUnsupportedType(call.schema)) =>
          /\ err # NoError
          /\ tables = pre
    /\ \A i \in 1..Len(tables) : ~HasUnsupportedType(schema(tables[i].table))

(***************************************************************************)
(* C20: normalize(value, "integer") fails or returns an integer in the     *)
(* signed 64-bit range [-2^63, 2^63 - 1]: an integer or numeric string     *)
(* outside the range is rejected with a validation error, so no stored     *)
(* integer column value is outside the range.                              *)
(***************************************************************************)
InInt64(v) ==
    /\ v.k = "int"
    /\ \/ v.s = <<>>
       \/ Len(Unsigned(v.s)) < Len(Two63)
       \/ /\ Len(Unsigned(v.s)) = Len(Two63)
          /\ ~StrGreater(Unsigned(v.s),
                         IF IsNegative(v.s) THEN Two63 ELSE Int64MaxChars)

IntegerIsInt64 ==
    /\ (call.op = "normalize" /\ call.schema[1][2] = "integer") =>
          \/ err.exc = "ValueError"
          \/ err = NoError /\ InInt64(ret.value)
    /\ (call.op = "add_row" /\ err = NoError) =>
          \A i \in 1..Len(call.schema) :
              call.schema[i][2] = "integer" =>
                  InInt64(ret.table.rows[1][call.schema[i][1]])

(***************************************************************************)
(* C21: for valid calendar dates s and e the three interval shapes, the    *)
(* object {start: s, end: e}, the pair [s, e] and the string "s..e",       *)
(* normalize alike under the interval type: to {start: s, end: e} in ISO   *)
(* form when s <= e (s = e included), and to a validation error when       *)
(* s > e; no interval that add_row or update_row stores has its start      *)
(* after its end.                                                          *)
(***************************************************************************)
IsIntervalShape(value) ==
    \/ value.k \in {"dict", "list"}
    \/ value.k = "str" /\ DotDotAt(value.s) # 0

StartOf(value) ==
    IF value.k = "str" THEN SubSeq(value.s, 1, DotDotAt(value.s) - 1) ELSE value.s

EndOf(value) ==
    IF value.k = "str" THEN SubSeq(value.s, DotDotAt(value.s) + 2, Len(value.s))
    ELSE value.e

IntervalShapesAgree ==
    /\ (/\ call.op = "normalize"
        /\ call.schema[1][2] = "dateInvl"
        /\ IsIntervalShape(call.values.value)
        /\ IsIsoDate(StartOf(call.values.value))
        /\ IsIsoDate(EndOf(call.values.value))) =>
          LET start == StartOf(call.values.value)
              end == EndOf(call.values.value)
              outcome == [err |-> err,
                          value |-> IF err = NoError THEN ret.value ELSE PyNone]
          IN  /\ IF StrGreater(isoformat(start), isoformat(end))
                 THEN /\ err.exc = "ValueError"
                      /\ err.msg = "dateInvl start must be <= end"
                 ELSE /\ err = NoError
                      /\ ret.value = PyInterval(isoformat(start), isoformat(end))
              /\ normalize(PyInterval(start, end), "dateInvl") = outcome
              /\ normalize(PyList(start, end), "dateInvl") = outcome
              /\ normalize(PyStr(start \o <<".", ".">> \o end), "dateInvl") = outcome
    /\ (call.op \in {"add_row", "update_row"} /\ err = NoError) =>
          \A k \in 1..Len(ret.table.rows) : \A c \in DOMAIN ret.table.rows[k] :
              ret.table.rows[k][c].k = "dict" =>
                  ~StrGreater(ret.table.rows[k][c].s, ret.table.rows[k][c].e)

\* the string shape with its start after its end was refused
IntervalShapesAgreeWitness ==
    /\ call.op = "normalize"
    /\ call.schema[1][2] = "dateInvl"
    /\ call.values.value.k = "str"
    /\ DotDotAt(call.values.value.s) # 0
    /\ IsIsoDate(StartOf(call.values.value))
    /\ IsIsoDate(EndOf(call.values.value))
    /\ err.msg = "dateInvl start must be <= end"

(***************************************************************************)
(* C22: the type tags the core accepts are exactly integer, real, char,    *)
(* string, date and dateInvl: normalization fails with "Unsupported type"  *)
(* exactly under the other tags (dateInterval among them), a column of     *)
(* each of the six tags stores a valid value of its type through add_row,  *)
(* and a column of any other tag stores nothing.                           *)
(***************************************************************************)
ValidValues(type_name) ==
    IF type_name = "integer" THEN {PyInt(0), PyInt(12), PyInt(0 - 3)}
    ELSE IF type_name = "real" THEN {PyFloat(15), PyFloat(0 - 25)}
    ELSE IF type_name = "char" THEN {PyStr(<<"a">>), PyStr(<<"7">>)}
    ELSE IF type_name = "string" THEN {PyStr(<<>>), PyStr(<<"a", "b">>)}
    ELSE IF type_name = "date" THEN {PyStr(Chars2024)}
    ELSE {PyInterval(Chars2024, Chars2025), PyInterval(Chars2024, Chars2024)}

TagsAccepted(tags) ==
    /\ call.op = "normalize" =>
          IF call.schema[1][2] \in tags
          THEN err.msg # "Unsupported type"
          ELSE /\ err.exc = "ValueError"
               /\ err.msg = "Unsupported type"
               /\ err.args = <<call.schema[1][2]>>
    /\ (/\ call.op = "add_row"
        /\ Len(call.schema) = 1
        /\ DOMAIN call.values = {call.schema[1][1]}) =>
          IF call.schema[1][2] \in tags
          THEN call.values[call.schema[1][1]] \in ValidValues(call.schema[1][2]) =>
                  /\ err = NoError
                  /\ ret.table.rows = <<call.values>>
          ELSE /\ err.msg = "Unsupported type"
               /\ ret.table.rows = <<>>

UniqueColumns(t) ==
    \A i \in 1..Len(t.columns) : \A j \in 1..Len(t.columns) :
        t.columns[i].name = t.columns[j].name => i = j

ColumnNamesUnique ==
    /\ \A i \in 1..Len(tables) : UniqueColumns(tables[i].table)
    /\ (UnionSucceeded /\ UniqueColumns(ArgA) /\ UniqueColumns(ArgB))
          => UniqueColumns(ret.table)

\* two registered tables that share a column and differ in another were
\* united
ColumnNamesUniqueWitness ==
    /\ UnionSucceeded
    /\ call.name # call.right
    /\ ColumnNamesOf(ArgA) \cap ColumnNamesOf(ArgB) # {}
    /\ ColumnNamesOf(ArgA) # ColumnNamesOf(ArgB)
    /\ Len(ret.table.columns) = 2
    /\ \A i \in 1..Len(tables) : Len(tables[i].table.columns) > 0

(***************************************************************************)
(* C24: a successful update_row(index, values) replaces the row at index   *)
(* by the normalized values and nothing else: the table has as many rows   *)
(* as before, every other row is the same row at the same position, and    *)
(* the table's name and columns are the same.                              *)
(***************************************************************************)
UpdateRowReplacesOne ==
    (call.op = "edit_row" /\ call.name \in Keys(pre) /\ err = NoError) =>
        LET before == Lookup(pre, call.name)
            after == Lookup(tables, call.name)
        IN  /\ call.name \in Keys(tables)
            /\ call.index >= 0 /\ call.index < Len(before.rows)
            /\ Len(after.rows) = Len(before.rows)
            /\ after.rows[call.index + 1]
                 = validate_row(schema(before), call.values).value
            /\ \A k \in 1..Len(before.rows) :
                  k # call.index + 1 => after.rows[k] = before.rows[k]
            /\ after.name = before.name
            /\ after.columns = before.columns

\* the first of two different rows was replaced by another row, given in a
\* form that normalization changes
UpdateRowReplacesOneWitness ==
    /\ call.op = "edit_row"
    /\ call.name \in Keys(pre)
    /\ err = NoError
    /\ call.index = 0
    /\ Len(Lookup(pre, call.name).rows) = 2
    /\ Lookup(pre, call.name).rows[1] # Lookup(pre, call.name).rows[2]
    /\ Lookup(tables, call.name).rows[1] # Lookup(pre, call.name).rows[1]
    /\ Lookup(tables, call.name).rows[1] # call.values

(***************************************************************************)
(* C25: Database.from_json and Table.from_json take every row of the       *)
(* document as it is: each table loaded has the rows of its document, in   *)
(* order and with equal mappings, whether or not their keys are the        *)
(* column names and their values normalized for the column types; loading  *)
(* raises nothing.                                                         *)
(***************************************************************************)
LoadedDocument ==
    IF call.op = "load" THEN json_load_file(call.values) ELSE call.values

\* the position in the document of the table that ends up registered as name
LastNamed(docs, name) ==
    CHOOSE i \in 1..Len(docs) :
        /\ docs[i].name = name
        /\ \A j \in (i + 1)..Len(docs) : docs[j].name # name

DocRows(doc) == IF "rows" \in DOMAIN doc THEN doc.rows ELSE <<>>

LoadKeepsRows ==
    (call.op \in {"from_json", "load"}) =>
        LET docs == LoadedDocument.tables
        IN  /\ err = NoError
            /\ ret.db.tables = tables
            /\ Keys(tables) = {docs[i].name : i \in 1..Len(docs)}
            /\ \A n \in Keys(tables) :
                  LET doc == docs[LastNamed(docs, n)]
                      loaded == Lookup(tables, n)
                  IN  /\ Len(loaded.rows) = Len(DocRows(doc))
                      /\ \A k \in 1..Len(loaded.rows) :
                            /\ DOMAIN loaded.rows[k] = DOMAIN DocRows(doc)[k]
                            /\ \A c \in DOMAIN loaded.rows[k] :
                                  loaded.rows[k][c] = DocRows(doc)[k][c]

\* a table was loaded with a row whose keys are not its column names and a
\* row that validation would change
LoadKeepsRowsWitness ==
    /\ call.op = "from_json"
    /\ \E n \in Keys(tables) :
          LET loaded == Lookup(tables, n)
          IN  /\ Len(loaded.rows) = 2
              /\ DOMAIN loaded.rows[1] # ColumnNamesOf(loaded)
              /\ validate_row(schema(loaded), loaded.rows[1]).err # NoError
              /\ validate_row(schema(loaded), loaded.rows[2]).err = NoError
              /\ validate_row(schema(loaded), loaded.rows[2]).value
                   # loaded.rows[2]

(***************************************************************************)
(* C26: when the desktop API's union(left, right) is called while a table  *)
(* named <left>_UNION_<right> is registered (and none named                *)
(* <left>_UNION_<right>_2), the result is registered and returned under    *)
(* the name <left>_UNION_<right>_2, and the table registered under         *)
(* <left>_UNION_<right> is the one it was.                                 *)
(***************************************************************************)
DesktopOps == {"desktop_union", "persistent_union"}

DefaultName == ArgA.name \o UnionMarker \o ArgB.name

DesktopCollisionName ==
    (/\ call.op \in DesktopOps
     /\ UnionCalled
     /\ UnionCompatible(ArgA, ArgB)
     /\ DefaultName \in Keys(pre)
     /\ (DefaultName \o <<"_", "2">>) \notin Keys(pre)) =>
        /\ err = NoError
        /\ ret.kind = "Table"
        /\ ret.table.name = DefaultName \o <<"_", "2">>
        /\ (DefaultName \o <<"_", "2">>) \in Keys(tables)
        /\ Lookup(tables, DefaultName \o <<"_", "2">>) = ret.table
        /\ DefaultName \in Keys(tables)
        /\ Lookup(tables, DefaultName) = Lookup(pre, DefaultName)

(***************************************************************************)
(* C27: the web union endpoint never overwrites a table: a successful      *)
(* request, whatever name it asks for, registers the result under a name   *)
(* that was not registered, every table registered before is registered    *)
(* as it was and there is one table more; the loop that picks the name     *)
(* stops at the requested or default name or at one of its first           *)
(* len(db.tables) suffixed forms; a failed request leaves the registry as  *)
(* it was.                                                                 *)
(***************************************************************************)
WebSuffix(counter) == <<" ", "(">> \o IntToChars(counter) \o <<")">>

\* the names the loop can try in its first n rounds
WebCandidates(base, n) ==
    {base} \cup {Prefix(base, NameLimit - Len(WebSuffix(c))) \o WebSuffix(c) :
                    c \in 1..n}

WebUnionNeverOverwrites ==
    /\ (call.op = "web_union" /\ err = NoError) =>
          /\ UnionCalled /\ ret.kind = "Table"
          /\ ret.table.name \notin Keys(pre)
          /\ Keys(tables) = Keys(pre) \cup {ret.table.name}
          /\ Len(tables) = Len(pre) + 1
          /\ \A n \in Keys(pre) : Lookup(tables, n) = Lookup(pre, n)
          /\ Lookup(tables, ret.table.name) = ret.table
          /\ Len(ret.table.name) <= NameLimit
          /\ ret.table.name \in
                WebCandidates(web_base(call.requested, DefaultName), Len(pre))
    /\ (call.op = "web_union" /\ err # NoError) =>
          /\ err.exc = "HTTPException"
          /\ tables = pre
    /\ (call.op = "web_union" /\ (~UnionCalled \/ ~UnionCompatible(ArgA, ArgB))) =>
          err # NoError

\* the requested name was too long and its cut form taken: the result went
\* under the name cut further and suffixed
WebUnionNeverOverwritesWitness ==
    /\ call.op = "web_union"
    /\ err = NoError
    /\ call.requested = LongName
    /\ Prefix(LongName, NameLimit) \in Keys(pre)
    /\ ret.table.name = Prefix(LongName, NameLimit - 4) \o WebSuffix(1)
    /\ Len(tables) = 3

(***************************************************************************)
(* C28: a union result is independent of its inputs: an add_row or an      *)
(* update_row on A or B leaves the rows and columns of the table that      *)
(* union_tables returned as they were, and an add_row or update_row on     *)
(* the result leaves A and B as they were; so does any sequence of them.   *)
(***************************************************************************)
OthersOf(name) ==
    IF name = ResultVar THEN OwnedNames \cap Keys(pre.names)
    ELSE {ResultVar} \cap Keys(pre.names)

UnionResultIndependent ==
    (call.op \in {"add_row", "update_row"}) =>
        /\ tables.names = pre.names
        /\ \A other \in OthersOf(call.name) :
              /\ Lookup(tables.names, other).rows
                   # Lookup(tables.names, call.name).rows
              /\ TableAt(tables, other) = TableAt(pre, other)

\* a row was added to an input of a union whose result holds a row
UnionResultIndependentWitness ==
    /\ call.op = "add_row"
    /\ call.name = <<"A">>
    /\ err = NoError
    /\ ResultVar \in Keys(pre.names)
    /\ Len(TableAt(tables, ResultVar).rows) = 1
    /\ Len(TableAt(tables, call.name).rows) = 2
    /\ TableAt(tables, call.name) # TableAt(pre, call.name)

(***************************************************************************)
(* C29: union_tables is commutative up to ordering: for tables A and B     *)
(* whose shared columns have equal types, union_tables(A, B) and           *)
(* union_tables(B, A) both succeed, with the same set of (name, type)      *)
(* columns and the same rows counted with their multiplicity; when one     *)
(* direction fails as incompatible, so does the other.                     *)
(***************************************************************************)
SameRows(rows1, rows2) ==
    /\ Len(rows1) = Len(rows2)
    /\ \A i \in 1..Len(rows1) :
          Cardinality({k \in 1..Len(rows1) : rows1[k] = rows1[i]})
            = Cardinality({k \in 1..Len(rows2) : rows2[k] = rows1[i]})

UnionCommutes ==
    (call.op = "table_union") =>
        LET A == call.values.table1
            B == call.values.table2
        IN  \A first \in FirstConflicts(B, A) :
                LET swapped == union_tables(B, A, first)
                IN  /\ UnionCompatible(A, B) =>
                          /\ err = NoError
                          /\ swapped.err = NoError
                          /\ ColumnSetOf(swapped.result) = ColumnSetOf(ret.table)
                          /\ Len(swapped.result.columns) = Len(ret.table.columns)
                          /\ SameRows(swapped.result.rows, ret.table.rows)
                    /\ (err = NoError) <=> (swapped.err = NoError)
                    /\ (err # NoError) =>
                          /\ err.msg = "Incompatible schemas"
                          /\ swapped.err.msg = "Incompatible schemas"

\* the two directions differ in the order of the columns and of the rows
UnionCommutesWitness ==
    /\ call.op = "table_union"
    /\ err = NoError
    /\ Len(ret.table.rows) = 2
    /\ ret.table.rows[1] # ret.table.rows[2]
    /\ LET swapped == union_tables(call.values.table2, call.values.table1, "")
       IN  /\ swapped.result.columns # ret.table.columns
           /\ swapped.result.rows # ret.table.rows

(***************************************************************************)
(* C30: the mutations of a Database touch the named table only:            *)
(* insert_row(t, ...) and edit_row(t, ...), whether they succeed or fail,  *)
(* leave the columns of t, the registered names and every other table as   *)
(* they were; create_table(n, ...) and drop_table(n) leave every table     *)
(* other than n as it was.                                                 *)
(***************************************************************************)
OthersKept(name) ==
    \A other \in Keys(pre) \ {name} :
        /\ other \in Keys(tables)
        /\ Lookup(tables, other) = Lookup(pre, other)

MutationsAreLocal ==
    /\ (call.op \in RowOps) =>
          /\ [i \in 1..Len(tables) |-> tables[i].key]
               = [i \in 1..Len(pre) |-> pre[i].key]
          /\ OthersKept(call.name)
          /\ call.name \in Keys(pre) =>
                /\ Lookup(tables, call.name).columns = Lookup(pre, call.name).columns
                /\ Lookup(tables, call.name).name = Lookup(pre, call.name).name
    /\ (call.op \in {"create_table", "drop_table"}) =>
          /\ OthersKept(call.name)
          /\ Keys(tables) \ {call.name} = Keys(pre) \ {call.name}

\* a row went into one of two tables of the same columns
MutationsAreLocalWitness ==
    /\ call.op = "insert_row"
    /\ err = NoError
    /\ Len(pre) = 2
    /\ call.name = pre[1].key
    /\ pre[1].table.columns = pre[2].table.columns
    /\ Len(pre[1].table.columns) > 0
    /\ tables[1].table.rows # pre[1].table.rows
    /\ tables[2] = pre[2]

====
